---- MODULE Spec2Model ----
(***************************************************************************)
(* Model of square/password-rotation-lambda.                               *)
(*                                                                         *)
(*   mysql.PasswordSetter (setter.go): Init, SetPassword, VerifyPassword,  *)
(*   Rollback, setAll (semaphore channel maxParallel, one goroutine per    *)
(*   database, sync.WaitGroup) and setOne (retry loop).                    *)
(*   rotate.Rotator (rotate.go): Handler and the four Secrets Manager      *)
(*   steps, rollback and the replication poll.                             *)
(*                                                                         *)
(* Two specifications share the variables:                                 *)
(*   SpecSetter  the PasswordSetter driven directly by a caller, as the    *)
(*               tests of the mysql package drive it;                      *)
(*   Spec        the Rotator driving the PasswordSetter, one Lambda        *)
(*               invocation after the other.                               *)
(***************************************************************************)
EXTENDS Integers, Sequences, FiniteSets, TLC

\* ------------------------------------------------------------------------
\* Bounds of the model
MaxHosts == 2        \* RDS instances returned by DescribeDBInstances
MaxParallel == 2     \* largest Config.Parallel
MaxRetry == 1        \* largest Config.Retry
MaxPw == 2           \* distinct password values
MaxCalls == 3        \* calls of SetPassword/VerifyPassword/Rollback made by a direct caller

Hosts == 1..MaxHosts
Passwords == 1..MaxPw

\* Action names of setAll (setter.go, const block)
set_password == "setting"
verify_password == "verify"
rollback_password == "rollback"

\* kinds of instance DescribeDBInstances can return
InstanceKinds == {"ok", "noaddr", "filtered"}

VARIABLES
    \* --- environment
    rds,          \* answer of RDS DescribeDBInstances: host -> kind
    pw,           \* password each database host currently accepts
    ctxDone,      \* the context of the running call is cancelled
    \* --- mysql.PasswordSetter
    cfg,          \* Config after NewPasswordSetter: Parallel, Retry
    initDone,
    dbs,          \* []dbInstance
    maxParallel,  \* number of tokens in the semaphore channel
    \* --- one setAll call
    action,       \* "none" or the action of the running/last pass
    creds,        \* creds argument of setAll
    idx,          \* loop variable i of setAll (1-based)
    mpc,          \* where setAll is: idle, loop, wait, ctxwait, ret
    wk,           \* goroutine per database of this pass
    passErr,      \* error returned by the last pass
    \* --- observation of the setter
    lastSetOk,    \* db numbers whose client SetPassword succeeded in the most recent SetPassword pass
    pwBeforeSet,  \* pw when the most recent SetPassword pass began
    setCreds,     \* creds of the most recent SetPassword pass
    ncalls,       \* passes started by the direct caller
    \* --- rotate.Rotator and Secrets Manager
    sm,           \* Secrets Manager: docs by version id, version id by staging label
    repl,         \* every replica region reports InSync
    rpc,          \* where the Handler is
    inv,          \* the event of the running/last invocation
    skipDb,       \* Config.SkipDatabase
    replicationWaitDuration, \* Config.ReplicationWaitDuration, in sleeps of checkSecretReplicationStatus
    rcreds,       \* creds built by SetSecret/TestSecret
    newSecretId,  \* newSecret.VersionId of FinishSecret
    polls,        \* iterations done by checkSecretReplicationStatus
    ret,          \* error returned by the last invocation (by the last Init of a direct caller)
    trace,        \* calls made and events emitted by the running/last invocation (Init of a direct caller)
    fault,        \* a collaborator call of the invocation failed for a reason outside the program
    retry,        \* the invocation repeats the event of the invocation before, which returned nil
    sm0,          \* sm when the running/last invocation began
    pw0           \* pw when the running/last invocation began

envVars == <<rds, pw, ctxDone>>
setterVars == <<cfg, initDone, dbs, maxParallel>>
passVars == <<action, creds, idx, mpc, wk, passErr>>
obsVars == <<lastSetOk, pwBeforeSet, setCreds, ncalls>>
rotVars == <<sm, repl, rpc, inv, skipDb, replicationWaitDuration, rcreds, newSecretId, polls, ret, trace, fault, retry, sm0, pw0>>
vars == <<rds, pw, ctxDone, cfg, initDone, dbs, maxParallel, action, creds, idx, mpc, wk,
          passErr, lastSetOk, pwBeforeSet, setCreds, ncalls, sm, repl, rpc, inv, skipDb, replicationWaitDuration, rcreds, newSecretId,
          polls, ret, trace, fault, retry, sm0, pw0>>

\* ------------------------------------------------------------------------
\* db.Credentials, db.NewPassword
Credentials(u, h, p) == [Username |-> u, Hostname |-> h, Password |-> p]
NewPassword(c, n) == [Current |-> c, New |-> n]
NoHost == 0
NoCreds == NewPassword(Credentials("", NoHost, 0), Credentials("", NoHost, 0))

\* dbInstance{hostname: h}
dbInstance(h) ==
    [hostname |-> h, set |-> FALSE, verified |-> FALSE, rolledBack |-> FALSE,
     setError |-> "nil", verifyError |-> "nil", rollbackError |-> "nil"]

NoErr == [err |-> "nil", n |-> 0]

\* NewPasswordSetter: Parallel 0 becomes 1
NormParallel(p) == IF p = 0 THEN 1 ELSE p

\* slip: the first try is not counted
tries_RetryOnly == cfg.Retry

\* m.tries
tries == 1 + cfg.Retry

\* ------------------------------------------------------------------------
\* PasswordSetter.Init

\* slip: an instance without endpoint address is kept
NoEndpointAddress_Kept(h) == FALSE

\* Init: rds.Endpoint == nil || rds.Endpoint.Address == nil
NoEndpointAddress(h) == rds[h] = "noaddr"

\* slip: the result of the filter func is not used
FilteredOut_Never(h) == FALSE

\* Init: m.cfg.Filter != nil && m.cfg.Filter(rds)
FilteredOut(h) == rds[h] = "filtered"

\* Init: the instances kept, in the order of DescribeDBInstancesOutput.DBInstances
RECURSIVE KeptFrom(_)
KeptFrom(h) ==
    IF h > MaxHosts THEN <<>>
    ELSE IF NoEndpointAddress(h) THEN KeptFrom(h + 1)
    ELSE IF FilteredOut(h) THEN KeptFrom(h + 1)
    ELSE <<dbInstance(h)>> \o KeptFrom(h + 1)

\* slip: Init does not look at m.initDone
InitCached_Never == FALSE

\* Init: if m.initDone { return nil }
InitCached == initDone

\* m.Init(ctx, secret) with the answer of DescribeDBInstances (ok or error):
\* the error returned, m.initDone and m.dbs afterwards, the RDS calls made
SetterInitErr(describeOk) == IF ~InitCached /\ ~describeOk THEN "errDescribeDB" ELSE "nil"
SetterInitDone(describeOk) == initDone \/ describeOk
SetterInitDbs(describeOk) == IF InitCached \/ ~describeOk THEN dbs ELSE KeptFrom(1)
SetterInitCalls == IF InitCached THEN <<>> ELSE <<[op |-> "RDS.DescribeDBInstances"]>>

\* ------------------------------------------------------------------------
\* setAll

\* slip: the flags and errors of the run before are kept
ResetFlags_Keep(d) == d

\* SetPassword: reset flags and errors of every db instance
ResetFlags(d) == [i \in 1..Len(d) |-> dbInstance(d[i].hostname)]

\* Rollback: swapCreds
SwapCreds(c) == NewPassword(c.New, c.Current)

IdleWorker == [st |-> "idle", tryNo |-> 0, creds |-> NoCreds, out |-> "none"]

\* the goroutines of the pass that have not returned
Running == {t \in 1..Len(wk) : wk[t].st \in {"call", "sleep"}}
\* the goroutines inside a PasswordClient call
InCall == {t \in 1..Len(wk) : wk[t].st = "call"}

\* entry of setAll for an action: nothing dispatched yet
StartPass(act, c, d) ==
    /\ action' = act
    /\ creds' = c
    /\ idx' = 1
    /\ wk' = [i \in 1..Len(d) |-> IdleWorker]
    /\ mpc' = IF Len(d) = 0 THEN "wait" ELSE "loop"
    /\ passErr' = NoErr

\* m.SetPassword(ctx, creds)
SetPasswordBegin(c, d) ==
    /\ dbs' = ResetFlags(d)
    /\ StartPass(set_password, c, d)
    /\ lastSetOk' = {}
    /\ pwBeforeSet' = pw
    /\ setCreds' = c

\* m.VerifyPassword(ctx, creds)
VerifyPasswordBegin(c, d) ==
    /\ dbs' = d
    /\ StartPass(verify_password, c, d)
    /\ UNCHANGED <<lastSetOk, pwBeforeSet, setCreds>>

\* m.Rollback(ctx, creds)
RollbackBegin(c, d) ==
    /\ dbs' = d
    /\ StartPass(rollback_password, SwapCreds(c), d)
    /\ UNCHANGED <<lastSetOk, pwBeforeSet, setCreds>>

\* slip: rollback never skips a database
SkipRollback_Never(i) == FALSE

\* setAll: "new password was not set, skip rollback"
SkipRollback(i) == action = rollback_password /\ ~dbs[i].set

\* slip: the goroutines share one creds, stamped with the hostname of the first database
StampCreds_Shared(c, h) ==
    NewPassword(Credentials(c.Current.Username, dbs[1].hostname, c.Current.Password),
                Credentials(c.New.Username, dbs[1].hostname, c.New.Password))

\* the goroutine's copy of creds with the hostname of its database
StampCreds(c, h) ==
    NewPassword(Credentials(c.Current.Username, h, c.Current.Password),
                Credentials(c.New.Username, h, c.New.Password))

\* slip: the goroutine starts without a token having been taken
TakeSlot_Keep(n) == n

\* number of tokens left in maxParallel after the goroutine of a dispatched db started
TakeSlot(n) == n - 1

\* slip: the goroutine ends without sending its token back
ReleaseSlot_Lost(n) == n

\* the deferred m.maxParallel <- true
ReleaseSlot(n) == n + 1

\* slip: the token taken for a database that is skipped is not sent back
SendBack_Never(n) == TakeSlot(n)

\* Rollback skips the database: the token the select took is sent back to maxParallel
SendBack(n) == TakeSlot(n) + 1

\* setAll loop body: the select took a token from maxParallel
Dispatch ==
    /\ mpc = "loop"
    /\ idx <= Len(dbs)
    /\ maxParallel > 0
    /\ IF SkipRollback(idx)
       THEN /\ wk' = wk
            /\ maxParallel' = SendBack(maxParallel)
       ELSE /\ wk' = [wk EXCEPT ![idx] = [st |-> "call", tryNo |-> 1,
                                          creds |-> StampCreds(creds, dbs[idx].hostname),
                                          out |-> "none"]]
            /\ maxParallel' = TakeSlot(maxParallel)
    /\ idx' = idx + 1
    /\ mpc' = IF idx + 1 > Len(dbs) THEN "wait" ELSE "loop"
    /\ UNCHANGED <<envVars, cfg, initDone, dbs, action, creds, passErr, obsVars, rotVars>>

\* setAll loop body: the select took ctx.Done()
CtxObserved ==
    /\ mpc = "loop"
    /\ idx <= Len(dbs)
    /\ ctxDone
    /\ mpc' = "ctxwait"
    /\ UNCHANGED <<envVars, setterVars, action, creds, idx, wk, passErr, obsVars, rotVars>>

\* setAll: count of databases with an error of this action
ErrOf(d, act) ==
    IF act = set_password THEN d.setError
    ELSE IF act = verify_password THEN d.verifyError
    ELSE d.rollbackError

errCount == Cardinality({i \in 1..Len(dbs) : ErrOf(dbs[i], action) # "nil"})

\* the value setAll returns once wg.Wait() is over
SetAllReturn ==
    IF mpc = "ctxwait" THEN [err |-> "ctx", n |-> 0]
    ELSE IF errCount > 0 THEN [err |-> "failed", n |-> errCount]
    ELSE NoErr

\* slip: setAll returns without wg.Wait()
WgWaitOver_NoWait == TRUE

\* wg.Wait() can return: every goroutine of the pass called wg.Done()
WgWaitOver == Running = {}

\* wg.Wait() returns, setAll returns
WaitDone ==
    /\ mpc \in {"wait", "ctxwait"}
    /\ WgWaitOver
    /\ passErr' = SetAllReturn
    /\ mpc' = "ret"
    /\ UNCHANGED <<envVars, setterVars, action, creds, idx, wk, obsVars, rotVars>>

\* the goroutine records a success of its action
MarkOk(d, act) ==
    IF act = set_password THEN [d EXCEPT !.set = TRUE]
    ELSE IF act = verify_password THEN [d EXCEPT !.verified = TRUE]
    ELSE [d EXCEPT !.rolledBack = TRUE]

\* the goroutine records the error of its action
MarkErr(d, act, e) ==
    IF act = set_password THEN [d EXCEPT !.setError = e]
    ELSE IF act = verify_password THEN [d EXCEPT !.verifyError = e]
    ELSE [d EXCEPT !.rollbackError = e]

\* slip: the goroutine uses the loop variable i of setAll instead of its own dbNo
GoroutineEnd_LoopVar(t, e) ==
    /\ dbs' = [dbs EXCEPT ![IF idx > Len(dbs) THEN Len(dbs) ELSE idx] =
                                IF e = "nil" THEN MarkOk(@, action) ELSE MarkErr(@, action, e)]
    /\ wk' = [wk EXCEPT ![t].st = "done", ![t].out = e]
    /\ maxParallel' = ReleaseSlot(maxParallel)

\* goroutine t: setOne returned e, record it; deferred: release the token, wg.Done()
GoroutineEnd(t, e) ==
    /\ dbs' = [dbs EXCEPT ![t] = IF e = "nil" THEN MarkOk(@, action) ELSE MarkErr(@, action, e)]
    /\ wk' = [wk EXCEPT ![t].st = "done", ![t].out = e]
    /\ maxParallel' = ReleaseSlot(maxParallel)

\* RDSClient: the connection made by the call is accepted by the database
ConnectOk(t) ==
    IF action = verify_password
    THEN pw[wk[t].creds.New.Hostname] = wk[t].creds.New.Password
    ELSE pw[wk[t].creds.Current.Hostname] = wk[t].creds.Current.Password

\* RDSClient.SetPassword: ALTER USER ... IDENTIFIED BY the new password
AlterUser(t) == [pw EXCEPT ![wk[t].creds.Current.Hostname] = wk[t].creds.New.Password]

\* setOne: the PasswordClient call of goroutine t returns nil
ClientOk(t) ==
    /\ t \in InCall
    /\ ConnectOk(t)
    /\ pw' = IF action = verify_password THEN pw ELSE AlterUser(t)
    /\ GoroutineEnd(t, "nil")
    /\ lastSetOk' = IF action = set_password THEN lastSetOk \cup {t} ELSE lastSetOk
    /\ UNCHANGED <<rds, ctxDone, cfg, initDone, action, creds, idx, mpc, passErr, pwBeforeSet, setCreds, ncalls, rotVars>>

\* setOne: after a failed try, retry?
LastTry(t) == wk[t].tryNo = tries

\* slip: the context is not checked before the retry wait
ClientErr_NoCtxCheck(t) ==
    /\ t \in InCall
    /\ IF LastTry(t)
       THEN GoroutineEnd(t, "err")
       ELSE /\ wk' = [wk EXCEPT ![t].st = "sleep"]
            /\ UNCHANGED <<dbs, maxParallel>>
    /\ UNCHANGED <<envVars, cfg, initDone, action, creds, idx, mpc, passErr, obsVars, rotVars>>

\* setOne: the PasswordClient call of goroutine t returns an error
ClientErr(t) ==
    /\ t \in InCall
    /\ IF LastTry(t) \/ ctxDone
       THEN GoroutineEnd(t, "err")
       ELSE /\ wk' = [wk EXCEPT ![t].st = "sleep"]
            /\ UNCHANGED <<dbs, maxParallel>>
    /\ UNCHANGED <<envVars, cfg, initDone, action, creds, idx, mpc, passErr, obsVars, rotVars>>

\* slip: the token is not sent back when the call panics
ClientPanic_Leak(t) ==
    /\ t \in InCall
    /\ wk' = [wk EXCEPT ![t].st = "done", ![t].out = "panic"]
    /\ UNCHANGED <<envVars, cfg, initDone, dbs, maxParallel, action, creds, idx, mpc, passErr, obsVars, rotVars>>

\* the PasswordClient call of goroutine t panics: recover(), release the token, wg.Done()
ClientPanic(t) ==
    /\ t \in InCall
    /\ wk' = [wk EXCEPT ![t].st = "done", ![t].out = "panic"]
    /\ maxParallel' = ReleaseSlot(maxParallel)
    /\ UNCHANGED <<envVars, cfg, initDone, dbs, action, creds, idx, mpc, passErr, obsVars, rotVars>>

\* setOne: time.Sleep(RetryWait) is over, check the context again
RetryWait(t) ==
    /\ t \in 1..Len(wk)
    /\ wk[t].st = "sleep"
    /\ IF ctxDone
       THEN GoroutineEnd(t, "ctx")
       ELSE /\ wk' = [wk EXCEPT ![t].st = "call", ![t].tryNo = @ + 1]
            /\ UNCHANGED <<dbs, maxParallel>>
    /\ UNCHANGED <<envVars, cfg, initDone, action, creds, idx, mpc, passErr, obsVars, rotVars>>

\* the context of the running call is cancelled (deadline of the invocation)
Cancel ==
    /\ mpc \in {"loop", "wait"}
    /\ ~ctxDone
    /\ ctxDone' = TRUE
    /\ UNCHANGED <<rds, pw, setterVars, passVars, obsVars, rotVars>>

SetterStep ==
    \/ Dispatch
    \/ CtxObserved
    \/ WaitDone
    \/ \E t \in 1..MaxHosts : ClientOk(t)
    \/ \E t \in 1..MaxHosts : ClientErr(t)
    \/ \E t \in 1..MaxHosts : ClientPanic(t)
    \/ Cancel


\* ------------------------------------------------------------------------
\* The PasswordSetter called directly

Transitions == {NewPassword(Credentials("user", NoHost, c), Credentials("user", NoHost, c + 1)) :
                    c \in 1..(MaxPw - 1)}

CallerReady == mpc \in {"idle", "ret"} /\ ncalls < MaxCalls

\* the caller goes on to another call: what it saw of Init is gone
CallerLeavesInit ==
    /\ ret' = "none"
    /\ trace' = <<>>
    /\ UNCHANGED <<sm, repl, rpc, inv, skipDb, replicationWaitDuration, rcreds, newSecretId, polls,
                   fault, retry, sm0, pw0>>

\* the caller calls m.Init
CallInit ==
    /\ CallerReady
    /\ \E describeOk \in BOOLEAN :
        /\ initDone' = SetterInitDone(describeOk)
        /\ dbs' = SetterInitDbs(describeOk)
        /\ ret' = SetterInitErr(describeOk)
    /\ trace' = <<[op |-> "db.Init"]>> \o SetterInitCalls
    /\ UNCHANGED <<envVars, cfg, maxParallel, passVars, obsVars,
                   sm, repl, rpc, inv, skipDb, replicationWaitDuration, rcreds, newSecretId, polls,
                   fault, retry, sm0, pw0>>

CallSetPassword ==
    /\ CallerReady /\ initDone
    /\ \E c \in Transitions : SetPasswordBegin(c, dbs)
    /\ \E fresh \in BOOLEAN : ctxDone' = (ctxDone /\ ~fresh)
    /\ ncalls' = ncalls + 1
    /\ CallerLeavesInit
    /\ UNCHANGED <<rds, pw, cfg, initDone, maxParallel>>

CallVerifyPassword ==
    /\ CallerReady /\ initDone
    /\ \E c \in Transitions : VerifyPasswordBegin(c, dbs)
    /\ \E fresh \in BOOLEAN : ctxDone' = (ctxDone /\ ~fresh)
    /\ ncalls' = ncalls + 1
    /\ CallerLeavesInit
    /\ UNCHANGED <<rds, pw, cfg, initDone, maxParallel>>

CallRollback ==
    /\ CallerReady /\ initDone
    /\ \E c \in Transitions : RollbackBegin(c, dbs)
    /\ \E fresh \in BOOLEAN : ctxDone' = (ctxDone /\ ~fresh)
    /\ ncalls' = ncalls + 1
    /\ CallerLeavesInit
    /\ UNCHANGED <<rds, pw, cfg, initDone, maxParallel>>

\* ------------------------------------------------------------------------
\* Secrets Manager as the Rotator uses it

AWSCURRENT == "AWSCURRENT"
AWSPENDING == "AWSPENDING"
AWSPREVIOUS == "AWSPREVIOUS"
Labels == {AWSCURRENT, AWSPENDING, AWSPREVIOUS}

Tokens == {"a", "b"}                 \* ClientRequestToken values
VersionIds == {"v0"} \cup Tokens
NoVer == "none"
NoSecret == [username |-> "", password |-> 0]
NoEvent == [Step |-> "none", Token |-> "none", SecretId |-> "none"]

\* GetSecretValue(SecretId, VersionStage)
GetSecretValue(s, stage) ==
    LET v == s.stage[stage] IN
    IF v = NoVer
    THEN [found |-> FALSE, VersionId |-> NoVer, VersionStages |-> {}, SecretString |-> NoSecret]
    ELSE [found |-> TRUE, VersionId |-> v,
          VersionStages |-> {l \in Labels : s.stage[l] = v},
          SecretString |-> s.docs[v]]

\* PutSecretValue is rejected: the version exists with other values
PutRejected(s, id, doc) == s.docs[id] # NoSecret /\ s.docs[id] # doc

\* PutSecretValue(ClientRequestToken, SecretString, VersionStages = [AWSPENDING])
PutSecretValue(s, id, doc) ==
    [docs |-> [s.docs EXCEPT ![id] = doc],
     stage |-> [s.stage EXCEPT ![AWSPENDING] = id]]

\* UpdateSecretVersionStage is rejected: the label is not on RemoveFromVersionId
UpdateRejected(s, stage, from) == s.stage[stage] # from

\* UpdateSecretVersionStage(RemoveFromVersionId, MoveToVersionId, VersionStage)
MoveStage(s, stage, from, to) ==
    [s EXCEPT !.stage = [l \in Labels |->
        IF l = stage THEN to
        ELSE IF l = AWSPREVIOUS /\ stage = AWSCURRENT /\ from # to THEN from
        ELSE s.stage[l]]]

\* UpdateSecretVersionStage(RemoveFromVersionId, VersionStage)
RemoveStage(s, stage, from) == [s EXCEPT !.stage[stage] = NoVer]

\* SecretSetter.Rotate on a copy of the current values: a new password
Rotate(vals, p) == [vals EXCEPT !.password = p]

\* SecretSetter.Credentials and the db.Credentials the steps build from it
CredsOf(vals) == Credentials(vals.username, NoHost, vals.password)

\* ------------------------------------------------------------------------
\* Events and calls of one invocation

EVENT_BEGIN_ROTATION == "begin-rotation"
EVENT_BEGIN_PASSWORD_ROTATION == "begin-password-rotation"
EVENT_END_PASSWORD_ROTATION == "end-password-rotation"
EVENT_BEGIN_PASSWORD_VERIFICATION == "begin-password-verification"
EVENT_END_PASSWORD_VERIFICATION == "end-password-verification"
EVENT_NEW_PASSWORD_IS_CURRENT == "new-password-is-current"
EVENT_END_ROTATION == "end-rotation"
EVENT_BEGIN_PASSWORD_ROLLBACK == "begin-password-rollback"
EVENT_ERROR == "error"

errRotationFailed == "errRotationFailed"

Ev(name) == [op |-> "event", name |-> name]
Get(stage) == [op |-> "GetSecretValue", stage |-> stage]
Put(id, doc) == [op |-> "PutSecretValue", id |-> id, doc |-> doc, stages |-> {AWSPENDING}]
Upd(stage, from, to) == [op |-> "UpdateSecretVersionStage", stage |-> stage, from |-> from, to |-> to]
Rot(in, out) == [op |-> "Rotate", in |-> in, out |-> out]
Db(op, c) == [op |-> op, creds |-> c]
Call(op) == [op |-> op]
Describe(status) == [op |-> "DescribeSecret", status |-> status]

Res(s, e, tr, flt) == [sm |-> s, err |-> e, tr |-> tr, fault |-> flt]

\* ------------------------------------------------------------------------
\* rotate.Rotator

MaxInvocations == 3  \* Lambda invocations in one behaviour
MaxPolls == 1        \* largest Config.ReplicationWaitDuration, in sleeps of checkSecretReplicationStatus

\* getSecret(stage): the error it returns; f names the collaborator call that fails
GetErr(s, stage, failed) ==
    IF failed THEN "errGetSecretValue"
    ELSE IF ~GetSecretValue(s, stage).found THEN "ResourceNotFoundException"
    ELSE "nil"

\* slip: the error of Init is not looked at
InitErr_Ignored(f) == "nil"

\* Handler: r.ss.Init, then r.db.Init
InitErr(f) == IF f = "ssInit" THEN "errSecretSetterInit" ELSE SetterInitErr(f # "dbInit")
InitTrace(f) ==
    IF f = "ssInit" THEN <<Call("ss.Init")>>
    ELSE <<Call("ss.Init"), Call("db.Init")>> \o SetterInitCalls
InitDbs(f) == IF f = "ssInit" THEN dbs ELSE SetterInitDbs(f # "dbInit")
InitDone(f) == IF f = "ssInit" THEN initDone ELSE SetterInitDone(f # "dbInit")

\* slip: Handler does not send the event error
WithErrorEvent_Never(tr, e) == tr

\* Handler: the event error is received when the step returned an error
WithErrorEvent(tr, e) == IF e # "nil" THEN Append(tr, Ev(EVENT_ERROR)) ELSE tr

\* slip: the values put are the current values, not the rotated ones
CreateSecretRotate_PutCurrent(s, tok, f, p, curVals, tr) ==
    IF f = "rotate" THEN Res(s, "errRotate", Append(tr, Rot(curVals, curVals)), TRUE)
    ELSE LET newVals == Rotate(curVals, p)
             tr2 == tr \o <<Rot(curVals, newVals), Put(tok, curVals)>>
         IN IF f = "put" THEN Res(s, "errPutSecretValue", tr2, TRUE)
            ELSE IF PutRejected(s, tok, curVals) THEN Res(s, "ResourceExistsException", tr2, FALSE)
            ELSE Res(PutSecretValue(s, tok, curVals), "nil", tr2, FALSE)

\* slip: after the put, AWSPENDING is also removed from the current version by a relabel call
CreateSecretRotate_Relabel(s, tok, f, p, curVals, tr) ==
    LET newVals == Rotate(curVals, p)
        cur == s.stage[AWSCURRENT]
    IN  Res(PutSecretValue(s, tok, newVals), "nil",
            tr \o <<Rot(curVals, newVals), Put(tok, newVals), Upd(AWSPENDING, cur, NoVer)>>, FALSE)

\* CreateSecret: the part rotating the current values and putting the pending secret
CreateSecretRotate(s, tok, f, p, curVals, tr) ==
    IF f = "rotate" THEN Res(s, "errRotate", Append(tr, Rot(curVals, curVals)), TRUE)
    ELSE LET newVals == Rotate(curVals, p)
             tr2 == tr \o <<Rot(curVals, newVals), Put(tok, newVals)>>
         IN IF f = "put" THEN Res(s, "errPutSecretValue", tr2, TRUE)
            ELSE IF PutRejected(s, tok, newVals) THEN Res(s, "ResourceExistsException", tr2, FALSE)
            ELSE Res(PutSecretValue(s, tok, newVals), "nil", tr2, FALSE)

\* slip: the stages of the current secret are not looked at
currentHasPending_Never(curSec) == FALSE

\* CreateSecret: the current secret also has the pending stage (case 1)
currentHasPending(curSec) == AWSPENDING \in curSec.VersionStages

\* slip: the version ids are compared the wrong way round
PendingIsOurs_Never(penSec, tok) == penSec.VersionId # tok

\* slip: any pending secret is taken for ours
PendingIsOurs_Always(penSec, tok) == TRUE

\* CreateSecret: the pending secret is ours (case 2), a retry
PendingIsOurs(penSec, tok) == penSec.VersionId = tok

\* slip: the version id of the current secret is not compared with the token
OursIsCurrent_Never(curSec, tok) == FALSE

\* CreateSecret: our secret is the current secret (case 4)
OursIsCurrent(curSec, tok) == tok = curSec.VersionId

\* CreateSecret(ctx, event)
CreateSecret(s, tok, f, p) ==
    LET curSec == GetSecretValue(s, AWSCURRENT)
        penSec == GetSecretValue(s, AWSPENDING)
        t1 == <<Ev(EVENT_BEGIN_ROTATION), Get(AWSCURRENT)>>
        t2 == Append(t1, Get(AWSPENDING))
    IN  IF GetErr(s, AWSCURRENT, f = "getCur") # "nil"
        THEN Res(s, GetErr(s, AWSCURRENT, f = "getCur"), t1, f = "getCur")
        ELSE IF OursIsCurrent(curSec, tok)
        THEN Res(s, "errSameVersion", t1, FALSE)
        ELSE IF currentHasPending(curSec)
        THEN CreateSecretRotate(s, tok, f, p, curSec.SecretString, t1)
        ELSE IF f = "getPen"
        THEN Res(s, "errGetSecretValue", t2, TRUE)
        ELSE IF ~penSec.found
        THEN CreateSecretRotate(s, tok, f, p, curSec.SecretString, t2)
        ELSE IF PendingIsOurs(penSec, tok)
        THEN Res(s, "nil", t2, FALSE)
        ELSE Res(s, "errAnotherPending", t2, FALSE)

\* slip: the creds of the invocation before are used, the secrets are not fetched
StepCreds_Cached(s, f) == [err |-> "nil", tr |-> <<>>, fault |-> FALSE, creds |-> rcreds]

\* SetSecret and TestSecret: get pending, then current, build creds
StepCreds(s, f) ==
    LET newVals == GetSecretValue(s, AWSPENDING).SecretString
        curVals == GetSecretValue(s, AWSCURRENT).SecretString
        t1 == <<Get(AWSPENDING)>>
        t2 == <<Get(AWSPENDING), Get(AWSCURRENT)>>
    IN  IF GetErr(s, AWSPENDING, f = "getPen") # "nil"
        THEN [err |-> GetErr(s, AWSPENDING, f = "getPen"), tr |-> t1, fault |-> (f = "getPen"), creds |-> NoCreds]
        ELSE IF GetErr(s, AWSCURRENT, f = "getCur") # "nil"
        THEN [err |-> GetErr(s, AWSCURRENT, f = "getCur"), tr |-> t2, fault |-> (f = "getCur"), creds |-> NoCreds]
        ELSE [err |-> "nil", tr |-> t2, fault |-> FALSE,
              creds |-> NewPassword(CredsOf(curVals), CredsOf(newVals))]

\* the error rollback returns when getSecret(AWSPENDING) fails
RollbackGetErr(e) == e

\* slip: no return after r.db.Rollback failed
rollback_NoReturn(s, perr, f) ==
    LET newSecret == GetSecretValue(s, AWSPENDING)
        t1 == <<Get(AWSPENDING)>>
        t2 == <<Get(AWSPENDING), Upd(AWSPENDING, newSecret.VersionId, NoVer)>>
    IN  IF GetErr(s, AWSPENDING, f = "getPen") # "nil"
        THEN Res(s, RollbackGetErr(GetErr(s, AWSPENDING, f = "getPen")), t1, f = "getPen")
        ELSE IF f = "update"
        THEN Res(s, errRotationFailed, t2, TRUE)
        ELSE IF UpdateRejected(s, AWSPENDING, newSecret.VersionId)
        THEN Res(s, errRotationFailed, t2, FALSE)
        ELSE Res(RemoveStage(s, AWSPENDING, newSecret.VersionId), errRotationFailed, t2, FALSE)

\* rollback(ctx, creds, rotationStep) once r.db.Rollback returned perr
rollback(s, perr, f) ==
    LET newSecret == GetSecretValue(s, AWSPENDING)
        t1 == <<Get(AWSPENDING)>>
        t2 == <<Get(AWSPENDING), Upd(AWSPENDING, newSecret.VersionId, NoVer)>>
    IN  IF perr # "nil"
        THEN Res(s, errRotationFailed, <<>>, FALSE)
        ELSE IF GetErr(s, AWSPENDING, f = "getPen") # "nil"
        THEN Res(s, RollbackGetErr(GetErr(s, AWSPENDING, f = "getPen")), t1, f = "getPen")
        ELSE IF f = "update"
        THEN Res(s, errRotationFailed, t2, TRUE)
        ELSE IF UpdateRejected(s, AWSPENDING, newSecret.VersionId)
        THEN Res(s, errRotationFailed, t2, FALSE)
        ELSE Res(RemoveStage(s, AWSPENDING, newSecret.VersionId), errRotationFailed, t2, FALSE)

\* FinishSecret up to the replication wait: get current and pending, move AWSCURRENT
FinishSecretMove(s, f) ==
    LET curSecret == GetSecretValue(s, AWSCURRENT)
        newSecret == GetSecretValue(s, AWSPENDING)
        t1 == <<Get(AWSCURRENT)>>
        t2 == <<Get(AWSCURRENT), Get(AWSPENDING)>>
        t3 == Append(t2, Upd(AWSCURRENT, curSecret.VersionId, newSecret.VersionId))
    IN  IF GetErr(s, AWSCURRENT, f = "getCur") # "nil"
        THEN Res(s, GetErr(s, AWSCURRENT, f = "getCur"), t1, f = "getCur")
        ELSE IF GetErr(s, AWSPENDING, f = "getPen") # "nil"
        THEN Res(s, GetErr(s, AWSPENDING, f = "getPen"), t2, f = "getPen")
        ELSE IF f = "update"
        THEN Res(s, "errUpdateSecretVersionStage", t3, TRUE)
        ELSE IF UpdateRejected(s, AWSCURRENT, curSecret.VersionId)
        THEN Res(s, "errUpdateSecretVersionStage", t3, FALSE)
        ELSE Res(MoveStage(s, AWSCURRENT, curSecret.VersionId, newSecret.VersionId), "nil",
                 Append(t3, Ev(EVENT_NEW_PASSWORD_IS_CURRENT)), FALSE)

\* slip: the error of the removal is returned
FinishSecretRemove_Fatal(s, f) ==
    LET tr == <<Upd(AWSPENDING, newSecretId, NoVer)>>
    IN  IF f = "update" \/ UpdateRejected(s, AWSPENDING, newSecretId)
        THEN Res(s, "errUpdateSecretVersionStage", tr, f = "update")
        ELSE Res(RemoveStage(s, AWSPENDING, newSecretId), "nil", Append(tr, Ev(EVENT_END_ROTATION)), FALSE)

\* FinishSecret after the replication wait: remove AWSPENDING (an error is only logged)
FinishSecretRemove(s, f) ==
    LET tr == <<Upd(AWSPENDING, newSecretId, NoVer), Ev(EVENT_END_ROTATION)>>
    IN  IF f = "update" THEN Res(s, "nil", tr, TRUE)
        ELSE IF UpdateRejected(s, AWSPENDING, newSecretId) THEN Res(s, "nil", tr, FALSE)
        ELSE Res(RemoveStage(s, AWSPENDING, newSecretId), "nil", tr, FALSE)

\* ---- the invocations

InvokeReady == rpc \in {"idle", "returned"} /\ ncalls < MaxInvocations

\* Handler entry: a new event, a new context
BeginInvocation(ev) ==
    /\ inv' = ev
    /\ retry' = (inv = ev /\ ret = "nil")
    /\ sm0' = sm
    /\ pw0' = pw
    /\ ncalls' = ncalls + 1
    /\ ctxDone' = FALSE

\* Handler returns
Return(s, e, tr, flt) ==
    /\ sm' = s
    /\ ret' = e
    /\ trace' = tr
    /\ fault' = flt
    /\ rpc' = "returned"

InitFaults == {"none", "ssInit", "dbInit"}

\* the events Lambda delivers: those of Secrets Manager, and events of the user that lack
\* a key ("none": the key is not in the map)
Steps == {"createSecret", "setSecret", "testSecret", "finishSecret"}
SecretsManagerEvents == [Step : Steps, Token : Tokens, SecretId : {"secret"}]
UserEvents ==
    {[Step |-> "none", Token |-> "a", SecretId |-> "secret"],
     [Step |-> "setSecret", Token |-> "none", SecretId |-> "secret"],
     [Step |-> "setSecret", Token |-> "a", SecretId |-> "none"],
     NoEvent}
Events == SecretsManagerEvents \cup UserEvents

\* slip: the SecretId key is not looked at
InvokedBySecretsManager_NoSecretId(event) == event.Token # "none" /\ event.Step # "none"

\* InvokedBySecretsManager(event)
InvokedBySecretsManager(event) ==
    event.Token # "none" /\ event.SecretId # "none" /\ event.Step # "none"

\* what SecretSetter.Handler returns for a user event
UserHandlerErrors == {"nil", "errUserHandler"}
UserCall(e) == [op |-> "ss.Handler", err |-> e]

\* Handler with an event that is not from Secrets Manager: return r.ss.Handler(ctx, event)
HandlerUserEvent ==
    /\ InvokeReady
    /\ \E ev \in Events, e \in UserHandlerErrors :
        /\ ~InvokedBySecretsManager(ev)
        /\ BeginInvocation(ev)
        /\ Return(sm, e, <<UserCall(e)>>, FALSE)
    /\ UNCHANGED <<rds, pw, setterVars, passVars, lastSetOk, pwBeforeSet, setCreds,
                   repl, skipDb, replicationWaitDuration, rcreds, newSecretId, polls>>

\* the invocation of Handler with an event whose Step is createSecret
CreateSecretInvocation(ev) ==
    /\ \E f \in InitFaults \cup {"getCur", "getPen", "rotate", "put"}, p \in Passwords :
        /\ InvokedBySecretsManager(ev)
        /\ ev.Step = "createSecret"
        /\ BeginInvocation(ev)
        /\ initDone' = InitDone(f)
        /\ dbs' = InitDbs(f)
        /\ IF InitErr(f) # "nil"
           THEN Return(sm, InitErr(f), InitTrace(f), TRUE)
           ELSE LET b == CreateSecret(sm, ev.Token, f, p)
                IN Return(b.sm, b.err, WithErrorEvent(InitTrace(f) \o b.tr, b.err), b.fault)
    /\ UNCHANGED <<rds, pw, cfg, maxParallel, passVars, lastSetOk, pwBeforeSet, setCreds,
                   repl, skipDb, replicationWaitDuration, rcreds, newSecretId, polls>>

\* Handler with Step = createSecret
HandlerCreateSecret == InvokeReady /\ \E ev \in Events : CreateSecretInvocation(ev)

\* slip: Config.SkipDatabase is not looked at
DatabaseSkipped_Never == FALSE

\* SetSecret, TestSecret: if r.skipDb { return nil }
DatabaseSkipped == skipDb

\* the invocation of Handler with an event whose Step is setSecret, up to the database call
SetSecretInvocation(ev) ==
    /\ \E f \in InitFaults \cup {"getCur", "getPen"} :
        /\ InvokedBySecretsManager(ev)
        /\ ev.Step = "setSecret"
        /\ BeginInvocation(ev)
        /\ initDone' = InitDone(f)
        /\ LET c == StepCreds(sm, f) IN
           IF InitErr(f) # "nil" \/ DatabaseSkipped \/ c.err # "nil"
           THEN /\ IF InitErr(f) # "nil" THEN Return(sm, InitErr(f), InitTrace(f), TRUE)
                   ELSE IF DatabaseSkipped THEN Return(sm, "nil", InitTrace(f), FALSE)
                   ELSE Return(sm, c.err, WithErrorEvent(InitTrace(f) \o c.tr, c.err), c.fault)
                /\ dbs' = InitDbs(f)
                /\ UNCHANGED <<passVars, lastSetOk, pwBeforeSet, setCreds, rcreds>>
           ELSE /\ SetPasswordBegin(c.creds, InitDbs(f))
                /\ rcreds' = c.creds
                /\ trace' = InitTrace(f) \o c.tr \o
                            <<Ev(EVENT_BEGIN_PASSWORD_ROTATION), Db("db.SetPassword", c.creds)>>
                /\ rpc' = "SetPassword"
                /\ ret' = "none"
                /\ fault' = FALSE
                /\ sm' = sm
    /\ UNCHANGED <<rds, pw, cfg, maxParallel, repl, skipDb, replicationWaitDuration, newSecretId, polls>>

\* Handler with Step = setSecret, up to the call of r.db.SetPassword
HandlerSetSecret == InvokeReady /\ \E ev \in Events : SetSecretInvocation(ev)

\* the invocation of Handler with an event whose Step is testSecret, up to the database call
TestSecretInvocation(ev) ==
    /\ \E f \in InitFaults \cup {"getCur", "getPen"} :
        /\ InvokedBySecretsManager(ev)
        /\ ev.Step = "testSecret"
        /\ BeginInvocation(ev)
        /\ initDone' = InitDone(f)
        /\ LET c == StepCreds(sm, f) IN
           IF InitErr(f) # "nil" \/ DatabaseSkipped \/ c.err # "nil"
           THEN /\ IF InitErr(f) # "nil" THEN Return(sm, InitErr(f), InitTrace(f), TRUE)
                   ELSE IF DatabaseSkipped THEN Return(sm, "nil", InitTrace(f), FALSE)
                   ELSE Return(sm, c.err, WithErrorEvent(InitTrace(f) \o c.tr, c.err), c.fault)
                /\ dbs' = InitDbs(f)
                /\ UNCHANGED <<passVars, lastSetOk, pwBeforeSet, setCreds, rcreds>>
           ELSE /\ VerifyPasswordBegin(c.creds, InitDbs(f))
                /\ rcreds' = c.creds
                /\ trace' = InitTrace(f) \o c.tr \o
                            <<Ev(EVENT_BEGIN_PASSWORD_VERIFICATION), Db("db.VerifyPassword", c.creds)>>
                /\ rpc' = "VerifyPassword"
                /\ ret' = "none"
                /\ fault' = FALSE
                /\ sm' = sm
    /\ UNCHANGED <<rds, pw, cfg, maxParallel, repl, skipDb, replicationWaitDuration, newSecretId, polls>>

\* Handler with Step = testSecret, up to the call of r.db.VerifyPassword
HandlerTestSecret == InvokeReady /\ \E ev \in Events : TestSecretInvocation(ev)

\* the PasswordSetter call returned to the Rotator: the locals of setAll are gone
EndPass ==
    /\ action' = "none"
    /\ creds' = NoCreds
    /\ idx' = 1
    /\ mpc' = "idle"
    /\ wk' = <<>>
    /\ passErr' = NoErr

\* the error a PasswordSetter call returned to the Rotator
DbRet(op, e) == [op |-> op, err |-> e]

\* SetSecret/TestSecret: the database call failed, receive the rollback event, call r.db.Rollback
BeginRollback ==
    /\ RollbackBegin(rcreds, dbs)
    /\ trace' = trace \o <<DbRet("return", passErr.err), Ev(EVENT_BEGIN_PASSWORD_ROLLBACK),
                          Db("db.Rollback", rcreds)>>
    /\ rpc' = "Rollback"
    /\ UNCHANGED <<sm, ret, fault>>

\* SetSecret: r.db.SetPassword returned
SetPasswordReturn ==
    /\ rpc = "SetPassword"
    /\ mpc = "ret"
    /\ IF passErr.err = "nil"
       THEN /\ Return(sm, "nil", trace \o <<DbRet("return", "nil"), Ev(EVENT_END_PASSWORD_ROTATION)>>, fault)
            /\ EndPass
            /\ UNCHANGED <<dbs, lastSetOk, pwBeforeSet, setCreds>>
       ELSE BeginRollback
    /\ UNCHANGED <<envVars, cfg, initDone, maxParallel, ncalls,
                   repl, inv, skipDb, replicationWaitDuration, rcreds, newSecretId, polls, retry, sm0, pw0>>

\* TestSecret: r.db.VerifyPassword returned
VerifyPasswordReturn ==
    /\ rpc = "VerifyPassword"
    /\ mpc = "ret"
    /\ IF passErr.err = "nil"
       THEN /\ Return(sm, "nil", trace \o <<DbRet("return", "nil"), Ev(EVENT_END_PASSWORD_VERIFICATION)>>, fault)
            /\ EndPass
            /\ UNCHANGED <<dbs, lastSetOk, pwBeforeSet, setCreds>>
       ELSE BeginRollback
    /\ UNCHANGED <<envVars, cfg, initDone, maxParallel, ncalls,
                   repl, inv, skipDb, replicationWaitDuration, rcreds, newSecretId, polls, retry, sm0, pw0>>

\* rollback: r.db.Rollback returned; the rest of rollback, then Handler returns
RollbackReturn ==
    /\ rpc = "Rollback"
    /\ mpc = "ret"
    /\ \E f \in {"none", "getPen", "update"} :
        LET b == rollback(sm, passErr.err, f)
        IN Return(b.sm, b.err,
                  WithErrorEvent(Append(trace, DbRet("return", passErr.err)) \o b.tr, b.err),
                  fault \/ b.fault)
    /\ EndPass
    /\ UNCHANGED <<envVars, setterVars, obsVars,
                   repl, inv, skipDb, replicationWaitDuration, rcreds, newSecretId, polls, retry, sm0, pw0>>

\* the invocation of Handler with an event whose Step is finishSecret, up to checkSecretReplicationStatus
FinishSecretInvocation(ev) ==
    /\ \E f \in InitFaults \cup {"getCur", "getPen", "update"} :
        /\ InvokedBySecretsManager(ev)
        /\ ev.Step = "finishSecret"
        /\ BeginInvocation(ev)
        /\ initDone' = InitDone(f)
        /\ dbs' = InitDbs(f)
        /\ LET b == FinishSecretMove(sm, f) IN
           IF InitErr(f) # "nil"
           THEN /\ Return(sm, InitErr(f), InitTrace(f), TRUE)
                /\ UNCHANGED <<repl, newSecretId, polls>>
           ELSE IF b.err # "nil"
           THEN /\ Return(b.sm, b.err, WithErrorEvent(InitTrace(f) \o b.tr, b.err), b.fault)
                /\ UNCHANGED <<repl, newSecretId, polls>>
           ELSE /\ sm' = b.sm
                /\ trace' = InitTrace(f) \o b.tr
                /\ newSecretId' = GetSecretValue(sm, AWSPENDING).VersionId
                /\ polls' = 0
                /\ repl' \in BOOLEAN
                /\ rpc' = "poll"
                /\ ret' = "none"
                /\ fault' = FALSE
    /\ UNCHANGED <<rds, pw, cfg, maxParallel, passVars, lastSetOk, pwBeforeSet, setCreds, skipDb, replicationWaitDuration, rcreds>>

\* Handler with Step = finishSecret, up to checkSecretReplicationStatus
HandlerFinishSecret == InvokeReady /\ \E ev \in Events : FinishSecretInvocation(ev)

\* 10 * time.Second, in sleeps of 500 * time.Millisecond
DEFAULT_REPLICATION_WAIT_DURATION == 20

\* slip: the configured wait is used even when it is not positive
waitDuration_Configured == replicationWaitDuration

\* checkSecretReplicationStatus: the default unless the configured wait is positive
waitDuration ==
    IF replicationWaitDuration > 0 THEN replicationWaitDuration
    ELSE DEFAULT_REPLICATION_WAIT_DURATION

\* what DescribeSecret reports of the replicas
ReplStatus == IF repl THEN "InSync" ELSE "InProgress"

\* slip: the flag is not cleared for a region that is not in sync
replicationSyncComplete_Always(status) == TRUE

\* checkSecretReplicationStatus: every non-nil region status is InSync
replicationSyncComplete(status) == status = "InSync"

\* checkSecretReplicationStatus: one evaluation of the loop condition and the body;
\* when the replicas are in sync FinishSecret goes on to its end
FinishPoll ==
    /\ rpc = "poll"
    /\ \E f \in {"none", "describe", "update"} :
        IF polls >= waitDuration
        THEN /\ Return(sm, "errReplicationTimeout", WithErrorEvent(trace, "errReplicationTimeout"), TRUE)
             /\ polls' = 0
             /\ newSecretId' = NoVer
        ELSE IF f = "describe"
        THEN /\ Return(sm, "errDescribeSecret",
                       WithErrorEvent(Append(trace, Describe("error")), "errDescribeSecret"), TRUE)
             /\ polls' = 0
             /\ newSecretId' = NoVer
        ELSE IF replicationSyncComplete(ReplStatus)
        THEN /\ LET b == FinishSecretRemove(sm, f)
                IN Return(b.sm, b.err, Append(trace, Describe(ReplStatus)) \o b.tr, fault \/ b.fault)
             /\ polls' = 0
             /\ newSecretId' = NoVer
        ELSE /\ polls' = polls + 1
             /\ trace' = Append(trace, Describe(ReplStatus))
             /\ UNCHANGED <<sm, ret, fault, rpc, newSecretId>>
    /\ UNCHANGED <<envVars, setterVars, passVars, obsVars,
                   repl, inv, skipDb, replicationWaitDuration, rcreds, retry, sm0, pw0>>

\* the replicas of the secret reach InSync
ReplSync ==
    /\ rpc = "poll"
    /\ ~repl
    /\ repl' = TRUE
    /\ UNCHANGED <<envVars, setterVars, passVars, obsVars,
                   sm, rpc, inv, skipDb, replicationWaitDuration, rcreds, newSecretId, polls, ret, trace, fault, retry, sm0, pw0>>

\* a new Lambda execution environment: main() builds a new PasswordSetter and Rotator
ColdStart ==
    /\ rpc = "returned"
    /\ initDone
    /\ initDone' = FALSE
    /\ dbs' = <<>>
    /\ maxParallel' = cfg.Parallel
    /\ action' = "none"
    /\ creds' = NoCreds
    /\ idx' = 1
    /\ mpc' = "idle"
    /\ wk' = <<>>
    /\ passErr' = NoErr
    /\ lastSetOk' = {}
    /\ UNCHANGED <<envVars, cfg, pwBeforeSet, setCreds, ncalls, rotVars>>

\* ------------------------------------------------------------------------
\* Initial states

RotInit ==
    /\ sm = [docs |-> [v \in VersionIds |->
                         IF v = "v0" THEN [username |-> "user", password |-> 1] ELSE NoSecret],
             stage |-> [l \in Labels |-> IF l = AWSCURRENT THEN "v0" ELSE NoVer]]
    /\ repl = TRUE
    /\ rpc = "idle"
    /\ inv = NoEvent
    /\ rcreds = NoCreds
    /\ newSecretId = NoVer
    /\ polls = 0
    /\ ret = "none"
    /\ trace = <<>>
    /\ fault = FALSE
    /\ retry = FALSE
    /\ sm0 = sm
    /\ pw0 = pw

\* NewPasswordSetter(cfg)
SetterNew(p, r) ==
    /\ cfg = [Parallel |-> NormParallel(p), Retry |-> r]
    /\ maxParallel = NormParallel(p)
    /\ initDone = FALSE
    /\ dbs = <<>>

PassInit ==
    /\ action = "none"
    /\ creds = NoCreds
    /\ idx = 1
    /\ mpc = "idle"
    /\ wk = <<>>
    /\ passErr = NoErr
    /\ lastSetOk = {}
    /\ pwBeforeSet = pw
    /\ setCreds = NoCreds
    /\ ncalls = 0

\* the PasswordSetter of a test of the mysql package: any instances, any Config
InitSetter ==
    /\ rds \in [Hosts -> InstanceKinds]
    /\ pw = [h \in Hosts |-> 1]
    /\ ctxDone = FALSE
    /\ \E p \in 0..MaxParallel, r \in 0..MaxRetry : SetterNew(p, r)
    /\ PassInit
    /\ skipDb = FALSE
    /\ replicationWaitDuration = 0
    /\ RotInit

NextSetter ==
    \/ SetterStep
    \/ \E t \in 1..MaxHosts : RetryWait(t)
    \/ CallInit
    \/ CallSetPassword
    \/ CallVerifyPassword
    \/ CallRollback

SpecSetter == InitSetter /\ [][NextSetter]_vars

\* the PasswordSetter with the scheduling of the Go runtime: the loop of setAll goes on
\* when a token or ctx.Done() is ready, wg.Wait() returns once every goroutine is done,
\* time.Sleep ends, and every PasswordClient call returns (nil, an error or a panic).
\* DescribeDBInstances returns any number of instances with an address.
InitLive ==
    /\ InitSetter
    /\ \E n \in 0..MaxHosts : rds = [h \in Hosts |-> IF h <= n THEN "ok" ELSE "noaddr"]

Fairness ==
    /\ WF_vars(Dispatch \/ CtxObserved)
    /\ WF_vars(WaitDone)
    /\ \A t \in 1..MaxHosts : WF_vars(ClientOk(t) \/ ClientErr(t) \/ ClientPanic(t))
    /\ \A t \in 1..MaxHosts : WF_vars(RetryWait(t))

\* the passes in the order SetSecret and TestSecret call them: SetPassword first,
\* VerifyPassword first or after a SetPassword that returned nil, Rollback after a
\* SetPassword or VerifyPassword that returned an error
FirstPass == action = "none"
OrderedSetPassword == FirstPass /\ CallSetPassword
OrderedVerifyPassword == (FirstPass \/ (action = set_password /\ passErr = NoErr)) /\ CallVerifyPassword
OrderedRollback == action \in {set_password, verify_password} /\ passErr # NoErr /\ CallRollback

NextLive ==
    \/ SetterStep
    \/ \E t \in 1..MaxHosts : RetryWait(t)
    \/ CallInit
    \/ OrderedSetPassword
    \/ OrderedVerifyPassword
    \/ OrderedRollback

SpecSetterLive == InitLive /\ [][NextLive]_vars /\ Fairness

\* the Lambda function with the default Config of the PasswordSetter (Parallel 0, Retry 0,
\* so setOne never waits for a retry) and either value of Config.SkipDatabase: every
\* database has the password of the current secret
Init ==
    /\ rds = [h \in Hosts |-> "ok"]
    /\ pw = [h \in Hosts |-> 1]
    /\ ctxDone = FALSE
    /\ SetterNew(0, 0)
    /\ PassInit
    /\ skipDb \in BOOLEAN
    /\ replicationWaitDuration \in 0..MaxPolls
    /\ RotInit

Next ==
    \/ HandlerUserEvent
    \/ HandlerCreateSecret
    \/ HandlerSetSecret
    \/ HandlerTestSecret
    \/ HandlerFinishSecret
    \/ SetPasswordReturn
    \/ VerifyPasswordReturn
    \/ RollbackReturn
    \/ FinishPoll
    \/ ReplSync
    \/ ColdStart
    \/ SetterStep

Spec == Init /\ [][Next]_vars

\* one rotation as Secrets Manager drives it: the four steps in order, each invoked once
\* with the token of the rotation, the next one only after the one before returned nil
RunSteps == <<"createSecret", "setSecret", "testSecret", "finishSecret">>

RunReady(ev) ==
    /\ rpc \in {"idle", "returned"}
    /\ ncalls < Len(RunSteps)
    /\ ev.Step = RunSteps[ncalls + 1]
    /\ ncalls > 0 => (ret = "nil" /\ ev.Token = inv.Token)

RunCreateSecret == \E ev \in Events : RunReady(ev) /\ CreateSecretInvocation(ev)
RunSetSecret == \E ev \in Events : RunReady(ev) /\ SetSecretInvocation(ev)
RunTestSecret == \E ev \in Events : RunReady(ev) /\ TestSecretInvocation(ev)
RunFinishSecret == \E ev \in Events : RunReady(ev) /\ FinishSecretInvocation(ev)

NextRun ==
    \/ RunCreateSecret
    \/ RunSetSecret
    \/ RunTestSecret
    \/ RunFinishSecret
    \/ SetPasswordReturn
    \/ VerifyPasswordReturn
    \/ RollbackReturn
    \/ FinishPoll
    \/ ReplSync
    \/ ColdStart
    \/ SetterStep

SpecRun == Init /\ [][NextRun]_vars

\* ------------------------------------------------------------------------
\* Properties of the PasswordSetter (SpecSetter)

\* the goroutines the running/last pass started (each made at least one PasswordClient call)
Dispatched == {t \in 1..Len(wk) : wk[t].st # "idle"}

PassReturned == mpc = "ret"

\* C1: in a Rollback pass the PasswordClient is called only for databases whose set flag
\* is true, and the flag is true exactly for the databases the most recent SetPassword
\* pass changed; for the others (failed, not dispatched, no SetPassword pass) no call is made.
C1_RollbackOnlySet ==
    /\ \A t \in 1..Len(dbs) : dbs[t].set <=> t \in lastSetOk
    /\ action = rollback_password => \A t \in Dispatched : dbs[t].set /\ t \in lastSetOk

\* a Rollback pass returned having called one database and skipped another
C1_Witness ==
    /\ action = rollback_password
    /\ PassReturned
    /\ Dispatched # {}
    /\ \E t \in 1..Len(dbs) : t \notin Dispatched /\ ~dbs[t].set

\* a Rollback pass for the transition of the most recent SetPassword pass returned nil
RollbackOfSetSucceeded ==
    /\ action = rollback_password
    /\ PassReturned
    /\ passErr.err = "nil"
    /\ setCreds # NoCreds
    /\ creds = SwapCreds(setCreds)

\* C2: Rollback calls the client with current and new swapped; after SetPassword(t)
\* succeeded on a database and Rollback(t) succeeds, the database has the password it had
\* before SetPassword, and a database SetPassword did not change keeps its password.
C2_RollbackRestores ==
    /\ action = rollback_password =>
          \A t \in Dispatched : wk[t].creds = StampCreds(SwapCreds(setCreds), dbs[t].hostname)
                                  \/ creds # SwapCreds(setCreds)
    /\ RollbackOfSetSucceeded =>
          \A t \in 1..Len(dbs) : pw[dbs[t].hostname] = pwBeforeSet[dbs[t].hostname]
    /\ action = rollback_password /\ setCreds # NoCreds =>
          \A t \in 1..Len(dbs) : t \notin lastSetOk => pw[dbs[t].hostname] = pwBeforeSet[dbs[t].hostname]

\* the same with the panic of a client call during the Rollback pass left out
C2_RestoresUnlessPanic ==
    (RollbackOfSetSucceeded /\ \A t \in 1..Len(wk) : wk[t].out # "panic") =>
        \A t \in 1..Len(dbs) : pw[dbs[t].hostname] = pwBeforeSet[dbs[t].hostname]

\* C3 as stated: never more than Parallel client calls in flight, and with databases left
\* to dispatch and fewer than Parallel client calls in flight a token is free for the next one.
C3_Original ==
    /\ Cardinality(InCall) <= cfg.Parallel
    /\ (mpc = "loop" /\ idx <= Len(dbs) /\ Cardinality(InCall) < cfg.Parallel) => maxParallel > 0

\* C3 amended: never more than Parallel goroutines (and so client calls) of a pass are alive;
\* the free tokens are Parallel minus the goroutines alive (in a client call or in a retry
\* wait), so with databases left to dispatch and fewer than Parallel goroutines alive a token
\* is free and the next database can be dispatched.
C3_ParallelCap ==
    /\ Cardinality(InCall) <= Cardinality(Running)
    /\ Cardinality(Running) <= cfg.Parallel
    /\ maxParallel = cfg.Parallel - Cardinality(Running)
    /\ (mpc = "loop" /\ idx <= Len(dbs) /\ Cardinality(Running) < cfg.Parallel) => maxParallel > 0

\* more databases than Parallel: Parallel client calls in flight, the next database waits
C3_Witness ==
    /\ mpc = "loop"
    /\ idx <= Len(dbs)
    /\ Cardinality(InCall) = cfg.Parallel
    /\ maxParallel = 0

\* ------------------------------------------------------------------------
\* Properties of the Rotator (Spec)

\* the event lacks one of the keys ClientRequestToken, SecretId, Step
LacksKey(event) == event.Token = "none" \/ event.SecretId = "none" \/ event.Step = "none"

\* the invocation of a step by Secrets Manager returned to Lambda
Returned(step) == rpc = "returned" /\ inv.Step = step /\ ~LacksKey(inv)

\* the calls of the invocation with this name, as positions in trace
CallsOf(op) == {i \in DOMAIN trace : trace[i].op = op}

\* the calls of the invocation that ask the secret store for a change
StoreWrites == CallsOf("PutSecretValue") \cup CallsOf("UpdateSecretVersionStage")

\* the PasswordSetter call at position i of trace returned an error
FailedAt(i) ==
    /\ i + 1 \in DOMAIN trace
    /\ trace[i + 1].op = "return"
    /\ trace[i + 1].err # "nil"

\* r.db.SetPassword or r.db.VerifyPassword failed in the invocation
PassFailed(op) == \E i \in CallsOf(op) : FailedAt(i)

\* the staging labels of a version
StagesOf(s, v) == {l \in Labels : s.stage[l] = v}

\* C4: createSecret called again with the same token right after it returned nil (the store
\* unchanged in between, every collaborator call answered): it returns nil, does not call
\* Rotate, does not call PutSecretValue, and the store (so the pending secret) is as the
\* first call left it.
C4_CreateSecretRetry ==
    (Returned("createSecret") /\ retry /\ ~fault) =>
        /\ ret = "nil"
        /\ CallsOf("Rotate") = {}
        /\ CallsOf("PutSecretValue") = {}
        /\ sm = sm0
        /\ sm.stage[AWSPENDING] = inv.Token

C4_Witness ==
    /\ Returned("createSecret")
    /\ retry
    /\ ~fault
    /\ ret = "nil"
    /\ GetSecretValue(sm, AWSPENDING).SecretString.password # GetSecretValue(sm, AWSCURRENT).SecretString.password

\* createSecret failed on the version ids
ConflictErrors == {"errAnotherPending", "errSameVersion"}

\* createSecret was invoked with a pending secret of another version id in the store
OtherPending ==
    /\ Returned("createSecret")
    /\ ~fault
    /\ sm0.stage[AWSPENDING] \notin {NoVer, inv.Token}

\* C5 as stated: createSecret invoked while a version other than the token has AWSPENDING
\* returns a conflict error and writes nothing to the store.
C5_Original ==
    OtherPending =>
        /\ ret \in ConflictErrors
        /\ StoreWrites = {}
        /\ sm = sm0

\* C5 amended: createSecret invoked while a version that is neither the token nor the
\* current version has AWSPENDING fails and writes nothing: with the error of another
\* pending secret, or, when the token is the current version id, with the error of new and
\* current having the same version id.
C5_Conflict ==
    (OtherPending /\ sm0.stage[AWSPENDING] # sm0.stage[AWSCURRENT]) =>
        /\ ret = (IF inv.Token = sm0.stage[AWSCURRENT] THEN "errSameVersion" ELSE "errAnotherPending")
        /\ StoreWrites = {}
        /\ CallsOf("Rotate") = {}
        /\ sm = sm0

C5_Witness ==
    /\ OtherPending
    /\ sm0.stage[AWSPENDING] # sm0.stage[AWSCURRENT]
    /\ ret = "errAnotherPending"

\* createSecret was invoked with no version having AWSPENDING
NoPending ==
    /\ Returned("createSecret")
    /\ ~fault
    /\ sm0.stage[AWSPENDING] = NoVer

\* createSecret wrote one new version: the token, staged AWSPENDING only, holding what
\* Rotate returned for the values of the current secret; no UpdateSecretVersionStage call;
\* the current secret and every other version as before
WroteNewPending ==
    /\ ret = "nil"
    /\ CallsOf("UpdateSecretVersionStage") = {}
    /\ Cardinality(CallsOf("Rotate")) = 1
    /\ Cardinality(CallsOf("PutSecretValue")) = 1
    /\ \A i \in CallsOf("Rotate"), j \in CallsOf("PutSecretValue") :
          /\ trace[i].in = sm0.docs[sm0.stage[AWSCURRENT]]
          /\ trace[j].id = inv.Token
          /\ trace[j].stages = {AWSPENDING}
          /\ trace[j].doc = trace[i].out
          /\ sm.docs[inv.Token] = trace[i].out
    /\ sm0.docs[inv.Token] = NoSecret
    /\ StagesOf(sm, inv.Token) = {AWSPENDING}
    /\ sm.stage = [sm0.stage EXCEPT ![AWSPENDING] = inv.Token]
    /\ \A v \in VersionIds \ {inv.Token} : sm.docs[v] = sm0.docs[v]

\* C6 as stated: createSecret invoked while no version has AWSPENDING writes exactly one
\* new version (id the token, only stage AWSPENDING, content Rotate of the current values),
\* makes no UpdateSecretVersionStage call and leaves the current secret unchanged.
C6_Original == NoPending => WroteNewPending

\* C6 amended: the same, provided the token is not yet the id of a version of the secret.
C6_NewPending == (NoPending /\ sm0.docs[inv.Token] = NoSecret) => WroteNewPending

C6_Witness ==
    /\ NoPending
    /\ WroteNewPending
    /\ sm.docs[inv.Token] # sm0.docs[sm0.stage[AWSCURRENT]]

\* C7: when r.db.SetPassword fails in setSecret, the rollback event is received, then
\* r.db.Rollback is called with the credentials SetPassword was called with, and the step
\* returns errRotationFailed, never nil.
C7_SetFailureRollsBack ==
    (Returned("setSecret") /\ PassFailed("db.SetPassword")) =>
        /\ \A i \in CallsOf("db.SetPassword") :
              /\ i + 3 \in DOMAIN trace
              /\ trace[i + 2] = Ev(EVENT_BEGIN_PASSWORD_ROLLBACK)
              /\ trace[i + 3] = Db("db.Rollback", trace[i].creds)
        /\ ret = errRotationFailed

\* C8: once r.db.SetPassword (setSecret) or r.db.VerifyPassword (testSecret) has failed,
\* the step returns errRotationFailed whatever happens in rollback: r.db.Rollback fails,
\* getting the pending secret fails, removing AWSPENDING fails, or all of it works.
C8_GenericError ==
    /\ (Returned("setSecret") /\ PassFailed("db.SetPassword")) => ret = errRotationFailed
    /\ (Returned("testSecret") /\ PassFailed("db.VerifyPassword")) => ret = errRotationFailed

\* the same with the failure of getSecret(AWSPENDING) in rollback left out
C8_GenericUnlessGetFails ==
    (rpc = "returned" /\ (PassFailed("db.SetPassword") \/ PassFailed("db.VerifyPassword"))) =>
        ret \in {errRotationFailed, "errGetSecretValue"}

\* C9: in rollback, when r.db.Rollback returned nil the pending secret is fetched and the
\* removal of AWSPENDING from its version is requested, and when the store answers the
\* calls no version has AWSPENDING afterwards (nothing else changed); when r.db.Rollback
\* returned an error no call that changes the store is made and the store is as it was.
C9_RollbackLabel ==
    rpc = "returned" =>
        \A i \in CallsOf("db.Rollback") :
            IF FailedAt(i)
            THEN /\ StoreWrites = {}
                 /\ sm = sm0
                 /\ \A j \in DOMAIN trace : j > i + 1 => trace[j] = Ev(EVENT_ERROR)
            ELSE /\ CallsOf("PutSecretValue") = {}
                 /\ fault \/ StoreWrites # {}
                 /\ \A j \in StoreWrites :
                       j > i /\ trace[j] = Upd(AWSPENDING, sm0.stage[AWSPENDING], NoVer)
                 /\ ~fault => /\ sm0.stage[AWSPENDING] # NoVer
                              /\ sm = [sm0 EXCEPT !.stage[AWSPENDING] = NoVer]

\* SetPassword changed a database and failed on another, Rollback undid it and the label is gone
C9_Witness ==
    /\ Returned("setSecret")
    /\ ~fault
    /\ \E i \in CallsOf("db.Rollback") : ~FailedAt(i)
    /\ lastSetOk # {}
    /\ pw = pw0
    /\ sm.stage[AWSPENDING] = NoVer
    /\ sm0.stage[AWSPENDING] # NoVer

C10_FinishSecretRetried ==
    (Returned("finishSecret") /\ retry /\ ~fault) => ret = "nil"

\* when the invocation began every database accepted the password of the pending secret,
\* a password other than the one of the current secret
DbsAcceptPending ==
    /\ sm0.stage[AWSPENDING] # NoVer
    /\ sm0.docs[sm0.stage[AWSPENDING]].password # sm0.docs[sm0.stage[AWSCURRENT]].password
    /\ \A h \in Hosts : pw0[h] = sm0.docs[sm0.stage[AWSPENDING]].password

\* C11: setSecret invoked when the databases already accept the pending credentials (the
\* databases were set by an earlier invocation) does
\* not call r.db.SetPassword, does not call UpdateSecretVersionStage, and returns nil.
C11_AlreadySetToPending ==
    (Returned("setSecret") /\ ~skipDb /\ ~fault /\ DbsAcceptPending) =>
        /\ CallsOf("db.SetPassword") = {}
        /\ CallsOf("UpdateSecretVersionStage") = {}
        /\ ret = "nil"

\* FinishSecret: the calls moving AWSCURRENT, the calls removing AWSPENDING
MovesOfCurrent == {i \in CallsOf("UpdateSecretVersionStage") : trace[i].stage = AWSCURRENT}
RemovalsOfPending == {i \in CallsOf("UpdateSecretVersionStage") : trace[i].stage = AWSPENDING}

\* C12: finishSecret changes the store in this order only: it moves AWSCURRENT from the
\* current version to the pending version, then polls DescribeSecret until the replicas
\* are in sync, then removes AWSPENDING from the new current version; the removal comes
\* right after a poll that saw every region in sync, no poll and no removal comes before
\* the move, and nothing follows the removal but the end of the rotation.
C12_FinishSecretOrder ==
    inv.Step = "finishSecret" =>
        /\ CallsOf("PutSecretValue") = {}
        /\ Cardinality(MovesOfCurrent) <= 1
        /\ Cardinality(RemovalsOfPending) <= 1
        /\ \A m \in MovesOfCurrent :
              trace[m] = Upd(AWSCURRENT, sm0.stage[AWSCURRENT], sm0.stage[AWSPENDING])
        /\ \A d \in CallsOf("DescribeSecret") :
              /\ \E m \in MovesOfCurrent : m < d
              /\ trace[d].status = "InSync" => d + 1 \in RemovalsOfPending
        /\ \A r \in RemovalsOfPending :
              /\ trace[r] = Upd(AWSPENDING, sm0.stage[AWSPENDING], NoVer)
              /\ r - 1 \in CallsOf("DescribeSecret")
              /\ trace[r - 1].status = "InSync"
              /\ \A m \in MovesOfCurrent : m < r
              /\ \A j \in DOMAIN trace : j > r => trace[j] = Ev(EVENT_END_ROTATION)
        /\ (rpc = "returned" /\ ret = "nil") =>
              /\ Cardinality(MovesOfCurrent) = 1
              /\ Cardinality(RemovalsOfPending) = 1

\* finishSecret returned nil after a poll that saw a region out of sync and a later one in sync
C12_Witness ==
    /\ Returned("finishSecret")
    /\ ret = "nil"
    /\ ~fault
    /\ \E d \in CallsOf("DescribeSecret") : trace[d].status = "InProgress"
    /\ RemovalsOfPending # {}
    /\ sm.stage[AWSCURRENT] = sm0.stage[AWSPENDING]
    /\ sm.stage[AWSPENDING] = NoVer

\* the polls of the invocation that saw every region in sync
PollsInSync == {d \in CallsOf("DescribeSecret") : trace[d].status = "InSync"}

\* the wait the claim expects: the configured one, the default when that is not positive
ExpectedWait ==
    IF replicationWaitDuration > 0 THEN replicationWaitDuration
    ELSE DEFAULT_REPLICATION_WAIT_DURATION

\* finishSecret gave up waiting for the replicas
TimedOut == Returned("finishSecret") /\ ret = "errReplicationTimeout"

\* C13: when no poll of finishSecret sees every region in sync within the wait (the
\* configured one, or the default when the configured one is not positive), finishSecret
\* returns an error, not before the wait has elapsed (one sleep after every poll), without
\* removing AWSPENDING and without the end-rotation event; it returns nil only when a poll
\* saw every region in sync.
C13_ReplicationTimeout ==
    /\ (Returned("finishSecret") /\ PollsInSync = {}) =>
          /\ ret # "nil"
          /\ RemovalsOfPending = {}
          /\ sm.stage[AWSPENDING] = sm0.stage[AWSPENDING]
          /\ \A i \in DOMAIN trace : trace[i] # Ev(EVENT_END_ROTATION)
    /\ TimedOut =>
          /\ PollsInSync = {}
          /\ Cardinality(CallsOf("DescribeSecret")) = ExpectedWait
    /\ (inv.Step = "finishSecret" /\ rpc = "poll") =>
          /\ PollsInSync = {}
          /\ Cardinality(CallsOf("DescribeSecret")) = polls
          /\ polls <= ExpectedWait
    /\ (Returned("finishSecret") /\ ret = "nil") => PollsInSync # {}

\* the default wait ran out: AWSCURRENT was moved, AWSPENDING is still there
C13_Witness ==
    /\ TimedOut
    /\ replicationWaitDuration = 0
    /\ MovesOfCurrent # {}
    /\ sm.stage[AWSPENDING] = sm.stage[AWSCURRENT]
    /\ sm.stage[AWSPENDING] # NoVer

\* finishSecret moved AWSCURRENT, saw the replicas in sync and asked for the removal of AWSPENDING
RemovalRequested == Returned("finishSecret") /\ RemovalsOfPending # {}

\* C14: in finishSecret, once AWSCURRENT is moved and the replicas are in sync, a failure
\* of the call removing AWSPENDING is not fatal: the end-rotation event is still received
\* (last) and finishSecret returns nil.
C14_RemovalNotFatal ==
    RemovalRequested =>
        /\ ret = "nil"
        /\ trace[Len(trace)] = Ev(EVENT_END_ROTATION)
        /\ sm.stage[AWSCURRENT] = sm0.stage[AWSPENDING]

\* the removal failed: the new current version still has AWSPENDING
C14_Witness ==
    /\ RemovalRequested
    /\ fault
    /\ ret = "nil"
    /\ sm.stage[AWSPENDING] = sm.stage[AWSCURRENT]
    /\ sm0.stage[AWSPENDING] # sm0.stage[AWSCURRENT]

\* createSecret was invoked with a token not used before while the current version also
\* had AWSPENDING (finishSecret could not remove it)
LingeringPending ==
    /\ Returned("createSecret")
    /\ ~fault
    /\ sm0.stage[AWSPENDING] = sm0.stage[AWSCURRENT]
    /\ inv.Token # sm0.stage[AWSCURRENT]
    /\ sm0.docs[inv.Token] = NoSecret

\* C15: a lingering pending label does not break the next rotation: when the current
\* version also carries AWSPENDING, createSecret with a new token returns nil and puts a
\* new pending version holding the rotated values of the current secret; the current
\* version stays current and loses AWSPENDING to the new version.
C15_LingeringPending ==
    LingeringPending =>
        /\ ret = "nil"
        /\ CallsOf("GetSecretValue") = {i \in DOMAIN trace : trace[i] = Get(AWSCURRENT)}
        /\ Cardinality(CallsOf("Rotate")) = 1
        /\ Cardinality(CallsOf("PutSecretValue")) = 1
        /\ \A i \in CallsOf("Rotate"), j \in CallsOf("PutSecretValue") :
              /\ trace[i].in = sm0.docs[sm0.stage[AWSCURRENT]]
              /\ trace[j] = Put(inv.Token, trace[i].out)
              /\ sm.docs[inv.Token] = trace[i].out
        /\ sm.stage = [sm0.stage EXCEPT ![AWSPENDING] = inv.Token]
        /\ \A v \in VersionIds \ {inv.Token} : sm.docs[v] = sm0.docs[v]

C15_Witness ==
    /\ LingeringPending
    /\ ret = "nil"
    /\ sm.stage[AWSPENDING] = inv.Token
    /\ sm.stage[AWSCURRENT] = sm0.stage[AWSCURRENT]
    /\ sm.stage[AWSPREVIOUS] # NoVer

\* ------------------------------------------------------------------------
\* More properties of the PasswordSetter (SpecSetter)

\* the pass returned without having seen the context cancelled in its loop
ReturnedUncancelled == PassReturned /\ action # "none" /\ passErr.err # "ctx"

\* C16: the result of a pass depends only on what the pass itself recorded: a SetPassword,
\* VerifyPassword or Rollback pass in which every started goroutine succeeded returns nil,
\* whatever an earlier pass of the same PasswordSetter recorded.
C16_ResultOfThisPass ==
    (ReturnedUncancelled /\ \A t \in Dispatched : wk[t].out = "nil") => passErr.err = "nil"

\* the databases whose setError is set; the goroutines of the pass whose setOne returned an error
SetErrorSlots == {t \in 1..Len(dbs) : dbs[t].setError # "nil"}
FailedInPass == {t \in 1..Len(wk) : wk[t].out \in {"err", "ctx"}}

\* C17: a SetPassword pass that did not see the context cancelled returns an error if and
\* only if the last try of at least one database failed in this pass, that is, if and only
\* if a setError is recorded; the error counts these databases, and the error of each stays
\* in its setError after the pass returned.
C17_AggregateError ==
    (ReturnedUncancelled /\ action = set_password) =>
        /\ SetErrorSlots = FailedInPass
        /\ \A t \in FailedInPass : dbs[t].setError = wk[t].out /\ ~dbs[t].set
        /\ passErr.err = (IF SetErrorSlots = {} THEN "nil" ELSE "failed")
        /\ passErr.n = Cardinality(SetErrorSlots)

\* one database changed, one failed: the error counts one
C17_Witness ==
    /\ ReturnedUncancelled
    /\ action = set_password
    /\ passErr = [err |-> "failed", n |-> 1]
    /\ \E t \in 1..Len(dbs) : dbs[t].set
    /\ \E t \in 1..Len(dbs) : dbs[t].setError = "err"

\* the goroutines not started
NotStarted == {t \in 1..Len(wk) : wk[t].st = "idle"}

\* C18: once setAll has seen the context cancelled while waiting for a token it starts no
\* further goroutine, waits until every goroutine it started has ended and only then
\* returns the context's error; no goroutine of a pass is running when the pass returns.
C18_CancelWaitsForWorkers ==
    /\ [](PassReturned => Running = {})
    /\ []((PassReturned /\ passErr.err = "ctx") => (idx <= Len(dbs) /\ idx..Len(dbs) \subseteq NotStarted))
    /\ [][mpc = "ctxwait" =>
            /\ mpc' \in {"ctxwait", "ret"}
            /\ idx' = idx
            /\ \A t \in NotStarted : wk'[t].st = "idle"
            /\ mpc' = "ret" => (Running = {} /\ passErr'.err = "ctx")]_vars

\* cancelled with one goroutine started and one database left: the pass returned once the
\* goroutine was done
C18_Witness ==
    /\ PassReturned
    /\ passErr.err = "ctx"
    /\ \E t \in 1..Len(wk) : wk[t].st = "done"
    /\ NotStarted # {}

\* the goroutines of the pass whose PasswordClient call panicked
Panicked == {t \in 1..Len(wk) : wk[t].out = "panic"}

\* C19: a panic of the PasswordClient call of one database does not end the pass and does
\* not leak its token: the goroutine is done and its token back (the tokens out are those
\* of the goroutines alive), the pass that is not cancelled goes through every other
\* database, and when the pass has returned all Parallel tokens are free again.
C19_PanicKeepsSlot ==
    /\ Panicked \cap Running = {}
    /\ maxParallel = cfg.Parallel - Cardinality(Running)
    /\ PassReturned => maxParallel = cfg.Parallel
    /\ (ReturnedUncancelled /\ Panicked # {}) =>
          /\ idx = Len(dbs) + 1
          /\ \A t \in 1..Len(dbs) : wk[t].st = "done" \/ (action = rollback_password /\ ~dbs[t].set)

\* one token only: the call of one database panicked, the next database was still served
C19_Witness ==
    /\ ReturnedUncancelled
    /\ cfg.Parallel = 1
    /\ maxParallel = 1
    /\ \E t \in Panicked : \E u \in 1..Len(wk) : u > t /\ wk[u].out = "nil"

\* the goroutines whose last PasswordClient call returned an error
GaveUp == {t \in 1..Len(wk) : wk[t].st = "done" /\ wk[t].out = "err"}

\* C20: with Retry = R and the context not cancelled, the PasswordClient call of a database
\* that fails every time is made exactly 1 + R times (once when R = 0) before the error is
\* recorded for the database, never more, and the pass then returns an error.
C20_RetryBudget ==
    /\ \A t \in 1..Len(wk) : wk[t].tryNo <= 1 + cfg.Retry
    /\ ~ctxDone =>
          /\ \A t \in GaveUp :
                /\ wk[t].tryNo = 1 + cfg.Retry
                /\ ErrOf(dbs[t], action) = "err"
          /\ \A t \in 1..Len(wk) :
                (action = set_password /\ wk[t].st \in {"call", "sleep"}) => dbs[t].setError = "nil"
          /\ (PassReturned /\ GaveUp # {}) => passErr.err = "failed"

\* Retry = 1: the second call failed too, the pass returned the error
C20_Witness ==
    /\ PassReturned
    /\ ~ctxDone
    /\ cfg.Retry = 1
    /\ passErr.err = "failed"
    /\ \E t \in GaveUp : wk[t].tryNo = 2

\* ------------------------------------------------------------------------
\* Properties of setOne and of PasswordSetter.Init (SpecSetter)

\* the goroutines whose setOne returned nil
Succeeded == {t \in 1..Len(wk) : wk[t].st = "done" /\ wk[t].out = "nil"}

\* the flag the goroutine sets after a success of its action
OkOf(d, act) ==
    IF act = set_password THEN d.set
    ELSE IF act = verify_password THEN d.verified
    ELSE d.rolledBack

\* setOne returned nil at one of its tries, the database has the flag of the action and no
\* error of the action
RecordedOk(t) ==
    /\ wk[t].tryNo \in 1..tries
    /\ OkOf(dbs[t], action)
    /\ ErrOf(dbs[t], action) = "nil"

\* C21: setOne stops at the first PasswordClient call that succeeds: a database whose call
\* fails f times (f <= Retry) and then succeeds has had f + 1 calls, is recorded as
\* succeeded with no error, and a pass (not cancelled) in which every database ended this
\* way returns nil.
C21_StopsAtFirstSuccess ==
    /\ \A t \in Succeeded : RecordedOk(t)
    /\ (ReturnedUncancelled /\ Dispatched = Succeeded /\ Len(dbs) = Cardinality(Succeeded)) =>
          passErr.err = "nil"

\* the same for the SetPassword pass alone
C21_SetStopsAtFirstSuccess ==
    action = set_password =>
        /\ \A t \in Succeeded : RecordedOk(t)
        /\ (ReturnedUncancelled /\ Dispatched = Succeeded /\ Len(dbs) = Cardinality(Succeeded)) =>
              passErr.err = "nil"

\* SetPassword with Retry = 1: a database failed once, then succeeded, the pass returned nil
C21_SetWitness ==
    /\ ReturnedUncancelled
    /\ action = set_password
    /\ passErr.err = "nil"
    /\ \E t \in Succeeded : wk[t].tryNo = 2

\* the hostnames of the db instances, in order
HostsOf(d) == [i \in 1..Len(d) |-> d[i].hostname]

\* the RDS DescribeDBInstances calls in a sequence of calls
DescribeCalls(tr) == {i \in DOMAIN tr : tr[i].op = "RDS.DescribeDBInstances"}

\* C22: RDS DescribeDBInstances is answered at most once for a PasswordSetter: once Init
\* has succeeded, a later Init makes no DescribeDBInstances call and returns nil, and
\* neither a later Init nor a SetPassword, VerifyPassword or Rollback pass (any of its
\* steps) changes which instances are in m.dbs or their order.
C22_InitOnce ==
    /\ [](initDone => DescribeCalls(trace) = {} \/ ret = "nil")
    /\ [][initDone =>
            /\ initDone'
            /\ HostsOf(dbs') = HostsOf(dbs)
            /\ trace' # trace => (DescribeCalls(trace') = {} /\ ret' \in {"nil", "none"})]_vars

\* Init was called again after it had succeeded, after a pass on the instances it found
C22_Witness ==
    /\ initDone
    /\ trace = <<[op |-> "db.Init"]>>
    /\ ret = "nil"
    /\ PassReturned
    /\ Dispatched # {}

\* C23: an instance DescribeDBInstances returns without endpoint or endpoint address does
\* not make Init fail (Init fails only when DescribeDBInstances fails); it is not in m.dbs,
\* and no goroutine, so no PasswordClient call of a SetPassword, VerifyPassword or
\* Rollback pass, is for it.
C23_NoEndpointSkipped ==
    /\ \A i \in 1..Len(dbs) : rds[dbs[i].hostname] # "noaddr"
    /\ \A t \in Dispatched : rds[wk[t].creds.Current.Hostname] # "noaddr"
                              /\ rds[wk[t].creds.New.Hostname] # "noaddr"
    /\ (DescribeCalls(trace) # {} /\ ret = "nil") => initDone
    /\ ret \in {"none", "nil", "errDescribeDB"}

\* Init succeeded with an instance without address among the instances, a pass served the others
C23_Witness ==
    /\ initDone
    /\ \E h \in Hosts : rds[h] = "noaddr"
    /\ PassReturned
    /\ Dispatched # {}
    /\ passErr.err = "nil"

\* the instances with an endpoint address the filter func does not filter out, in order
RECURSIVE ExpectedFrom(_)
ExpectedFrom(h) ==
    IF h > MaxHosts THEN <<>>
    ELSE IF rds[h] = "ok" THEN <<h>> \o ExpectedFrom(h + 1)
    ELSE ExpectedFrom(h + 1)

\* C24: after Init, m.dbs is exactly the instances with an endpoint address for which the
\* filter func is absent or returns false, in the order of DescribeDBInstances; an
\* instance the filter func returns true for is not in m.dbs and no goroutine of a later
\* pass is for it.
C24_FilterFunc ==
    /\ initDone => HostsOf(dbs) = ExpectedFrom(1)
    /\ \A t \in Dispatched : /\ rds[wk[t].creds.Current.Hostname] = "ok"
                             /\ wk[t].creds.Current.Hostname = ExpectedFrom(1)[t]

\* an instance filtered out before an instance kept: the pass served the second only
C24_Witness ==
    /\ initDone
    /\ \E h \in Hosts : rds[h] = "filtered" /\ \E g \in Hosts : g > h /\ rds[g] = "ok"
    /\ PassReturned
    /\ Dispatched # {}

\* ------------------------------------------------------------------------
\* Properties of Handler and of the steps (Spec)

\* the calls of the invocation on the PasswordSetter
SetterCalls ==
    CallsOf("db.Init") \cup CallsOf("db.SetPassword") \cup CallsOf("db.VerifyPassword")
        \cup CallsOf("db.Rollback")

\* the calls of the invocation on Secrets Manager
StoreCalls == CallsOf("GetSecretValue") \cup CallsOf("DescribeSecret") \cup StoreWrites

\* C25: an event that lacks ClientRequestToken, SecretId or Step is handed to
\* SecretSetter.Handler and what that returns is returned; nothing else is called for it
\* (no Init, no Secrets Manager call, no PasswordSetter call, no event received), the
\* store and the databases are as before, and only an event with all three keys reaches
\* the steps.
C25_UserEvent ==
    /\ (rpc = "returned" /\ LacksKey(inv)) =>
          /\ trace = <<[op |-> "ss.Handler", err |-> ret]>>
          /\ ret \in UserHandlerErrors
          /\ SetterCalls = {} /\ StoreCalls = {} /\ CallsOf("event") = {} /\ CallsOf("ss.Init") = {}
          /\ sm = sm0
          /\ pw = pw0
          /\ mpc = "idle"
    /\ rpc \notin {"idle", "returned"} => ~LacksKey(inv)
    /\ CallsOf("ss.Handler") # {} => LacksKey(inv)

\* the first invocation of a new function is an event with a Step but without
\* ClientRequestToken: the error of the user's handler is returned, Init was not called
C25_Witness ==
    /\ rpc = "returned"
    /\ inv.Step = "setSecret"
    /\ inv.Token = "none"
    /\ ret = "errUserHandler"
    /\ ~initDone
    /\ ncalls = 1

\* an invocation by Secrets Manager is running or has returned
SecretsManagerInvocation == rpc # "idle" /\ ~LacksKey(inv)

\* the errors only the Init calls return
InitErrors == {"errSecretSetterInit", "errDescribeDB"}

\* C26: in every invocation by Secrets Manager SecretSetter.Init is called first and
\* PasswordSetter.Init second, once each and before anything of the step; when one of
\* them returns an error that error is returned and nothing else was called: no event
\* received, no Secrets Manager call, no PasswordSetter pass, store and databases as before.
C26_InitBeforeStep ==
    SecretsManagerInvocation =>
        /\ Len(trace) >= 1
        /\ trace[1] = Call("ss.Init")
        /\ CallsOf("ss.Init") = {1}
        /\ IF ret = "errSecretSetterInit"
           THEN trace = <<Call("ss.Init")>>
           ELSE /\ Len(trace) >= 2
                /\ trace[2] = Call("db.Init")
                /\ CallsOf("db.Init") = {2}
        /\ ret \in InitErrors =>
              /\ rpc = "returned"
              /\ StoreCalls = {}
              /\ CallsOf("event") = {}
              /\ SetterCalls \subseteq {2}
              /\ CallsOf("Rotate") = {}
              /\ sm = sm0
              /\ pw = pw0
              /\ mpc = "idle"
        /\ ret = "errDescribeDB" => (DescribeCalls(trace) = {3} /\ Len(trace) = 3 /\ ~initDone)

\* PasswordSetter.Init failed in a setSecret invocation with a pending secret in the store
C26_Witness ==
    /\ Returned("setSecret")
    /\ ret = "errDescribeDB"
    /\ sm.stage[AWSPENDING] # NoVer
    /\ ~skipDb

\* the calls of the invocation that are not the Init calls of Handler
StepCalls == DOMAIN trace \ (CallsOf("ss.Init") \cup CallsOf("db.Init") \cup DescribeCalls(trace))

DocAt(s, stage) == IF s.stage[stage] = NoVer THEN NoSecret ELSE s.docs[s.stage[stage]]

\* the transition SetSecret and TestSecret are to build from the store as it is when the
\* step begins: Current from the current secret, New from the pending secret
TransitionOf(s) ==
    NewPassword(Credentials(DocAt(s, AWSCURRENT).username, NoHost, DocAt(s, AWSCURRENT).password),
                Credentials(DocAt(s, AWSPENDING).username, NoHost, DocAt(s, AWSPENDING).password))

\* testSecret calls r.db.VerifyPassword with the transition of the store and never
\* r.db.SetPassword; when VerifyPassword fails the rollback event is received and
\* r.db.Rollback is called with the same transition
TestSecretVerifies ==
    /\ CallsOf("db.SetPassword") = {}
    /\ Cardinality(CallsOf("db.VerifyPassword")) <= 1
    /\ \A i \in CallsOf("db.VerifyPassword") :
          /\ trace[i] = Db("db.VerifyPassword", TransitionOf(sm0))
          /\ trace[i - 1] = Ev(EVENT_BEGIN_PASSWORD_VERIFICATION)
          /\ trace[i - 2] = Get(AWSCURRENT)
          /\ trace[i - 3] = Get(AWSPENDING)
          /\ (rpc = "returned" /\ ~FailedAt(i)) =>
                /\ ret = "nil"
                /\ CallsOf("db.Rollback") = {}
                /\ trace[Len(trace)] = Ev(EVENT_END_PASSWORD_VERIFICATION)
          /\ (rpc \in {"returned", "Rollback"} /\ FailedAt(i)) =>
                /\ trace[i + 2] = Ev(EVENT_BEGIN_PASSWORD_ROLLBACK)
                /\ trace[i + 3] = Db("db.Rollback", TransitionOf(sm0))
                /\ \A j \in DOMAIN trace : trace[j] # Ev(EVENT_END_PASSWORD_VERIFICATION)
    /\ CallsOf("db.Rollback") # {} => CallsOf("db.VerifyPassword") # {}

\* C28: testSecret builds the transition as setSecret does (Current from the current
\* secret, New from the pending secret) and calls r.db.VerifyPassword with it, never
\* r.db.SetPassword; when VerifyPassword fails it goes through rollback as setSecret does
\* (rollback event, r.db.Rollback with the same transition) and returns errRotationFailed.
C28_TestSecret ==
    (inv.Step = "testSecret" /\ ~LacksKey(inv) /\ rpc # "idle") =>
        /\ TestSecretVerifies
        /\ (rpc = "returned" /\ PassFailed("db.VerifyPassword")) => ret = errRotationFailed

\* the same with the failure of getSecret(AWSPENDING) in rollback left out
C28_TestSecretUnlessGetFails ==
    (inv.Step = "testSecret" /\ ~LacksKey(inv) /\ rpc # "idle") =>
        /\ TestSecretVerifies
        /\ (rpc = "returned" /\ PassFailed("db.VerifyPassword")) =>
              ret \in {errRotationFailed, "errGetSecretValue"}

\* VerifyPassword failed on the databases that still have the current password, Rollback
\* went through and the step returned errRotationFailed
C28_VerifyFailedWitness ==
    /\ Returned("testSecret")
    /\ PassFailed("db.VerifyPassword")
    /\ \E i \in CallsOf("db.Rollback") : ~FailedAt(i)
    /\ ret = errRotationFailed
    /\ sm.stage[AWSPENDING] = NoVer

\* the GetSecretValue calls of the invocation before position i of trace
FetchesBefore(i) == {j \in CallsOf("GetSecretValue") : j < i}

\* setSecret was invoked with a pending and a current secret in the store
SetSecretInvoked ==
    /\ inv.Step = "setSecret"
    /\ ~LacksKey(inv)
    /\ rpc # "idle"

DbCallSucceeded ==
    \E i \in CallsOf("db.SetPassword") \cup CallsOf("db.VerifyPassword") :
        /\ i + 1 \in DOMAIN trace
        /\ trace[i + 1].op = "return"
        /\ trace[i + 1].err = "nil"

\* C30: UpdateSecretVersionStage is called only by finishSecret and by rollback:
\* createSecret never calls it, whatever path it takes (it changes no label but
\* AWSPENDING, which PutSecretValue attaches to the new version), and setSecret and
\* testSecret call it only after r.db.Rollback was called, never when their
\* PasswordSetter call succeeded, in which case the store is as it was.
C30_NoRelabel ==
    (~LacksKey(inv) /\ rpc # "idle") =>
        /\ inv.Step = "createSecret" =>
              /\ CallsOf("UpdateSecretVersionStage") = {}
              /\ sm.stage[AWSCURRENT] = sm0.stage[AWSCURRENT]
              /\ sm.stage[AWSPREVIOUS] = sm0.stage[AWSPREVIOUS]
              /\ sm.stage[AWSPENDING] \in {sm0.stage[AWSPENDING], inv.Token}
        /\ inv.Step \in {"setSecret", "testSecret"} =>
              /\ \A u \in CallsOf("UpdateSecretVersionStage") :
                    \E i \in CallsOf("db.Rollback") : i < u
              /\ DbCallSucceeded =>
                    /\ CallsOf("UpdateSecretVersionStage") = {}
                    /\ CallsOf("db.Rollback") = {}
                    /\ sm = sm0
        /\ CallsOf("UpdateSecretVersionStage") # {} =>
              inv.Step = "finishSecret" \/ CallsOf("db.Rollback") # {}

\* createSecret, setSecret and testSecret succeeded one after the other: the pending
\* version put by createSecret still has AWSPENDING, the databases have its password
C30_Witness ==
    /\ Returned("testSecret")
    /\ ret = "nil"
    /\ DbCallSucceeded
    /\ ncalls = 3
    /\ sm.stage[AWSPENDING] = inv.Token
    /\ sm.stage[AWSCURRENT] = "v0"
    /\ \A h \in Hosts : pw[h] = sm.docs[inv.Token].password
    /\ sm.docs[inv.Token].password # sm.docs["v0"].password

\* ------------------------------------------------------------------------
\* More properties of the steps (Spec)

\* createSecret was invoked with the token being the version id of the current secret
TokenIsCurrent ==
    /\ Returned("createSecret")
    /\ ret \notin InitErrors
    /\ inv.Token = sm0.stage[AWSCURRENT]

\* C31: createSecret invoked with a token that is the version id of the current secret
\* fails: once the current secret is fetched it returns the error of new and current
\* having the same version id, without fetching the pending secret, without calling
\* Rotate and without PutSecretValue or UpdateSecretVersionStage; the store is as before.
C31_SameVersion ==
    TokenIsCurrent =>
        /\ ret # "nil"
        /\ ~fault => ret = "errSameVersion"
        /\ \A i \in CallsOf("GetSecretValue") : trace[i] = Get(AWSCURRENT)
        /\ Cardinality(CallsOf("GetSecretValue")) = 1
        /\ CallsOf("Rotate") = {}
        /\ StoreWrites = {}
        /\ sm = sm0

\* a finished rotation made the token current; createSecret comes again with this token
C31_Witness ==
    /\ TokenIsCurrent
    /\ ~fault
    /\ ret = "errSameVersion"
    /\ inv.Token # "v0"
    /\ trace[Len(trace)] = Ev(EVENT_ERROR)

\* setSecret or testSecret went through rollback: r.db.Rollback returned nil and
\* AWSPENDING was removed from the pending version
RolledBack ==
    /\ Returned("setSecret") \/ Returned("testSecret")
    /\ \E i \in CallsOf("db.Rollback") : ~FailedAt(i)
    /\ ~fault
    /\ sm0.stage[AWSPENDING] # NoVer
    /\ sm.stage[AWSPENDING] = NoVer

\* when the invocation began every database had the password of the current or of the
\* pending secret
DbsFollowedStore ==
    \A h \in Hosts : pw0[h] \in {DocAt(sm0, AWSCURRENT).password, DocAt(sm0, AWSPENDING).password}

\* C32: whenever setSecret or testSecret ends with rollback having succeeded (r.db.Rollback
\* returned nil, AWSPENDING removed), every database has the password of the current
\* secret: none is left with the new password while the store is back at the old one.
C32_RollbackConsistent ==
    (RolledBack /\ DbsFollowedStore) =>
        \A h \in Hosts : pw[h] = DocAt(sm, AWSCURRENT).password

\* a second setSecret of the same rotation: every database already had the new password,
\* db.SetPassword failed everywhere, db.Rollback skipped every database and returned nil
C32_RepeatedSetSecret ==
    /\ RolledBack
    /\ Returned("setSecret")
    /\ \A h \in Hosts : pw0[h] = DocAt(sm0, AWSPENDING).password /\ pw[h] = pw0[h]
    /\ \E h \in Hosts : pw[h] # DocAt(sm, AWSCURRENT).password

\* ------------------------------------------------------------------------
\* More properties of setAll (SpecSetter)

\* a SetPassword pass has returned nil
SetPassReturnedNil == mpc = "ret" /\ action = set_password /\ passErr = NoErr

\* C33: a SetPassword pass returns nil only if every database of m.dbs has set = true when
\* the pass ends, whatever the PasswordClient calls did (nil, error, panic) and whether or
\* not the context was cancelled.
C33_SetNilMeansAllSet ==
    SetPassReturnedNil => \A t \in 1..Len(dbs) : dbs[t].set

\* the same for a pass in which no PasswordClient call panicked
C33_AllSetUnlessPanic ==
    (SetPassReturnedNil /\ \A t \in 1..Len(wk) : wk[t].out # "panic") =>
        \A t \in 1..Len(dbs) : dbs[t].set

\* a SetPassword pass over two databases returned nil without a panic
C33_NoPanicWitness ==
    /\ SetPassReturnedNil
    /\ Len(dbs) = 2
    /\ \A t \in 1..Len(wk) : wk[t].out = "nil"

\* ------------------------------------------------------------------------
\* Properties of one rotation (SpecRun)

\* the four steps were invoked in order with one token and all returned nil, with the
\* databases managed (SkipDatabase off) and no failure of a collaborator in finishSecret
RunSucceeded ==
    /\ rpc = "returned"
    /\ ncalls = Len(RunSteps)
    /\ inv.Step = "finishSecret"
    /\ ret = "nil"
    /\ ~skipDb
    /\ ~fault

\* finishSecret has not been invoked yet
BeforeFinishSecret == inv.Step # "finishSecret"

\* the staging labels at the end of the rotation, and before finishSecret
RunLabels ==
    /\ RunSucceeded => (sm.stage[AWSCURRENT] = inv.Token /\ sm.stage[AWSPENDING] = NoVer)
    /\ BeforeFinishSecret => sm.stage[AWSCURRENT] = "v0"

\* C34: from a store with one current version, no pending version and every database on
\* the current password, when createSecret, setSecret, testSecret and finishSecret are
\* invoked in that order with one token and all return nil, AWSCURRENT is on the version
\* whose id is the token, no version has AWSPENDING, and every database has the password
\* of that new current secret; before finishSecret AWSCURRENT never moves.
C34_EndToEnd ==
    /\ RunLabels
    /\ RunSucceeded => \A h \in Hosts : pw[h] = DocAt(sm, AWSCURRENT).password

\* the part of C34 about the staging labels
C34_Labels == RunLabels

\* a rotation succeeded and every database has the new password
C34_LabelsWitness ==
    /\ RunSucceeded
    /\ sm.stage[AWSCURRENT] = inv.Token
    /\ \A h \in Hosts : pw[h] = DocAt(sm, AWSCURRENT).password /\ pw[h] # 1

\* ------------------------------------------------------------------------
\* Properties of the semaphore and of termination (SpecSetter)

\* no pass is running: before the first pass, or the last pass has returned
NoPassRunning == mpc \in {"idle", "ret"}

\* C35: the tokens in maxParallel plus the goroutines that have not returned are always
\* Parallel (after NewPasswordSetter), and whenever a pass has returned (normally, with
\* errors, cancelled, after a panic, after skipping databases in Rollback) maxParallel
\* holds exactly Parallel tokens, so the next pass starts with all of them.
C35_SlotConservation ==
    /\ maxParallel \in 0..cfg.Parallel
    /\ maxParallel + Cardinality(Running) = cfg.Parallel
    /\ NoPassRunning => (Running = {} /\ maxParallel = cfg.Parallel)

\* a Rollback pass with two tokens returned: one database was rolled back, the other was
\* skipped, and both tokens are in maxParallel
C35_Witness ==
    /\ mpc = "ret"
    /\ action = rollback_password
    /\ cfg.Parallel = 2
    /\ maxParallel = 2
    /\ \E t \in 1..Len(wk) : wk[t].st = "done"
    /\ \E t \in 1..Len(dbs) : ~dbs[t].set /\ wk[t].st = "idle"

\* setAll is running
PassRunning == mpc \in {"loop", "wait", "ctxwait"}

\* C36: every SetPassword, VerifyPassword or Rollback pass eventually returns when every
\* PasswordClient call returns, for every Parallel >= 1 and every number of databases,
\* also a Rollback pass in which some or all databases are skipped: setAll never waits
\* for ever for a token or to send one back.
C36_PassReturns == PassRunning ~> mpc = "ret"

\* a Rollback pass with one token returned after skipping every one of two databases
C36_Witness ==
    /\ mpc = "ret"
    /\ action = rollback_password
    /\ cfg.Parallel = 1
    /\ Len(dbs) = 2
    /\ \A t \in 1..Len(dbs) : ~dbs[t].set /\ wk[t].st = "idle"

\* the databases of the pass with an error of this pass's action
ErrorSlots == {t \in 1..Len(dbs) : ErrOf(dbs[t], action) # "nil"}

\* C37: within a pass the flags and errors of a database are written only by the goroutine
\* started for that database, when it ends; a step writes the slot of one database only,
\* so no two goroutines write the same slot; and the errors are counted only after every
\* goroutine of the pass has ended.
C37_OwnSlots ==
    [][PassRunning =>
         /\ Len(dbs') = Len(dbs)
         /\ \A t \in 1..Len(dbs) :
               dbs'[t] # dbs[t] =>
                  /\ t \in Running
                  /\ wk'[t].st = "done"
                  /\ \A u \in (1..Len(dbs)) \ {t} : dbs'[u] = dbs[u] /\ wk'[u] = wk[u]
         /\ mpc' = "ret" =>
               /\ Running = {}
               /\ dbs' = dbs
               /\ mpc = "wait" => passErr'.n = Cardinality(ErrorSlots)]_vars

\* two goroutines ran at once: one has ended and recorded its error in its own slot, the
\* other is still running and its slot is untouched
C37_Witness ==
    /\ PassRunning
    /\ action = set_password
    /\ \E t \in 1..Len(wk) :
          /\ wk[t].st = "done" /\ wk[t].out = "err" /\ dbs[t].setError = "err"
          /\ \E u \in Running : u # t /\ dbs[u] = dbInstance(dbs[u].hostname)

\* ------------------------------------------------------------------------
\* Properties of setOne and of the goroutine's creds (SpecSetter)

\* goroutine t of the running pass takes a step
StepOf(t) == PassRunning /\ t \in 1..Len(wk) /\ Len(wk') = Len(wk) /\ wk'[t] # wk[t]

\* C38: setOne after a failed call with tries left: if the context is already cancelled it
\* returns the error of the call, without sleeping and without another call; otherwise it
\* sleeps RetryWait, and if the context is cancelled at the end of the sleep it returns the
\* context's error without another call; after the failed last try it returns the error of
\* the call without sleeping. Cancelled or not, there are never more than 1 + Retry calls.
C38_SetOneCancel ==
    /\ [][\A t \in 1..MaxHosts : StepOf(t) =>
            /\ (wk[t].st = "call" /\ wk'[t].st = "sleep") =>
                  /\ ~ctxDone
                  /\ wk[t].tryNo < 1 + cfg.Retry
                  /\ wk'[t].tryNo = wk[t].tryNo
                  /\ dbs'[t] = dbs[t]
            /\ (wk[t].st = "call" /\ (ctxDone \/ wk[t].tryNo = 1 + cfg.Retry)) =>
                  /\ wk'[t].st = "done"
                  /\ wk'[t].tryNo = wk[t].tryNo
                  /\ wk'[t].out \notin {"nil", "panic"} =>
                        (wk'[t].out = "err" /\ ErrOf(dbs'[t], action) = "err")
            /\ wk[t].st = "sleep" =>
                  IF ctxDone
                  THEN /\ wk'[t].st = "done"
                       /\ wk'[t].out = "ctx"
                       /\ wk'[t].tryNo = wk[t].tryNo
                       /\ ErrOf(dbs'[t], action) = "ctx"
                  ELSE /\ wk'[t].st = "call"
                       /\ wk'[t].tryNo = wk[t].tryNo + 1]_vars
    /\ [](\A t \in 1..Len(wk) : wk[t].tryNo <= 1 + cfg.Retry)

\* cancelled with tries left: one goroutine returned the error of its call, another, which
\* was sleeping, returned the context's error; neither made a second call
C38_Witness ==
    /\ ctxDone
    /\ cfg.Retry = 1
    /\ \E t \in 1..Len(wk) : wk[t].st = "done" /\ wk[t].out = "err" /\ wk[t].tryNo = 1
    /\ \E t \in 1..Len(wk) : wk[t].st = "done" /\ wk[t].out = "ctx" /\ wk[t].tryNo = 1

\* the goroutines of the pass that were started: each made at least one PasswordClient call
Started == {t \in 1..Len(wk) : wk[t].st # "idle"}

\* C39: every PasswordClient call of a pass has the hostname of its own database in both
\* Current and New, with the usernames and passwords of the creds of the pass; the hostname
\* of a database never appears in the call for another database, and the creds the caller
\* passed are not modified (they keep having no hostname).
C39_OwnHostname ==
    /\ \A t \in Started :
          /\ wk[t].creds.Current = Credentials(creds.Current.Username, dbs[t].hostname, creds.Current.Password)
          /\ wk[t].creds.New = Credentials(creds.New.Username, dbs[t].hostname, creds.New.Password)
          /\ \A u \in (1..Len(dbs)) \ {t} :
                dbs[u].hostname \notin {wk[t].creds.Current.Hostname, wk[t].creds.New.Hostname}
    /\ creds.Current.Hostname = NoHost
    /\ creds.New.Hostname = NoHost
    /\ (action = set_password) => creds = setCreds

\* two goroutines are in a PasswordClient call at once, each with the hostname of its own
\* database, and the creds of the pass still have no hostname
C39_Witness ==
    /\ \E t \in InCall : \E u \in InCall :
          /\ t # u
          /\ wk[t].creds.New.Hostname = dbs[t].hostname
          /\ wk[u].creds.New.Hostname = dbs[u].hostname
          /\ dbs[t].hostname # dbs[u].hostname
    /\ creds.New.Hostname = NoHost
    /\ creds # NoCreds

\* ------------------------------------------------------------------------
\* Properties of the events (Spec)

\* the names of the events the EventReceiver received in the invocation, in order
EventNames ==
    LET es == SelectSeq(trace, LAMBDA x : x.op = "event")
    IN [i \in 1..Len(es) |-> es[i].name]

\* setSecret returned after it had fetched both secrets and called r.db.SetPassword
SetSecretWithDatabase ==
    /\ Returned("setSecret")
    /\ ~skipDb
    /\ CallsOf("db.SetPassword") # {}

\* C40: the events of one setSecret invocation without SkipDatabase that fetched both
\* secrets are exactly begin-password-rotation, end-password-rotation when r.db.SetPassword
\* returned nil, and begin-password-rotation, begin-password-rollback, error when it
\* returned an error: end-password-rotation never follows a failed SetPassword, and the
\* event error is received once, last, exactly when the step returns an error.
C40_SetSecretEvents ==
    SetSecretWithDatabase =>
        /\ IF PassFailed("db.SetPassword")
           THEN /\ EventNames = <<EVENT_BEGIN_PASSWORD_ROTATION, EVENT_BEGIN_PASSWORD_ROLLBACK, EVENT_ERROR>>
                /\ ret # "nil"
           ELSE /\ EventNames = <<EVENT_BEGIN_PASSWORD_ROTATION, EVENT_END_PASSWORD_ROTATION>>
                /\ ret = "nil"
        /\ (ret # "nil") <=> (trace # <<>> /\ trace[Len(trace)] = Ev(EVENT_ERROR))
        /\ Cardinality({i \in CallsOf("event") : trace[i].name = EVENT_ERROR}) = IF ret = "nil" THEN 0 ELSE 1

\* r.db.SetPassword failed: the rollback was announced and the error event came last
C40_Witness ==
    /\ SetSecretWithDatabase
    /\ PassFailed("db.SetPassword")
    /\ ret = errRotationFailed
    /\ EventNames = <<EVENT_BEGIN_PASSWORD_ROTATION, EVENT_BEGIN_PASSWORD_ROLLBACK, EVENT_ERROR>>

====
